---- MODULE Spec2Model ----
(***************************************************************************)
(* Verification model of the ConveyorBelt repository.                      *)
(*                                                                         *)
(* Part I models ConveyorSystem (src/conveyor_sim/system.py, and its       *)
(* earlier form in src/conveyor_core.py): the tick pipeline, the mode      *)
(* operations and the drain-speed computation.  Part II models the PLC     *)
(* scan loop of src/PLC_deneme2.py: timers, equipment units, the four      *)
(* FSMs, the LIFO scheduler, the buffer lanes and main.                    *)
(*                                                                         *)
(* Lengths are whole cells, one cell being the distance SPEED_COLLECT      *)
(* covers in one tick (SPEED_COLLECT * DT); time is counted in ticks.      *)
(* Speeds are stored as integer numerators over SpeedDen, so that the      *)
(* computed drain speed safety * worst / DRAIN_WINDOW is held exactly.     *)
(* The geometry (loop, belt and line lengths, grid size) is configuration  *)
(* of the program; the model runs it at a reduced scale.                   *)
(***************************************************************************)
EXTENDS Integers, Sequences, FiniteSets, TLC

\* ------------------------------------------------------------------ bounds
MaxItems == 2
MaxT == 4
BELTS_R == 2
BELTS_C == 1
LOAD_LOOP_LEN_M == 6
SW_POS_M == 3
BELT_LEN_M == 6
LINE2_LEN_M == 5
UNL_LEN_M == 3
DRAIN_WINDOW_S == 2
DrainHorizon == 2

\* the PLC scan loop: rings, zones and positions in cells, times in scans
MaxScan == 40
MaxJobs == 2
NStations == 2
SIM_L == 12
StationSpacing == 4
SIM_HOOKS == 2
SIM_ZONE == 1
depot_pos == 8
LINE1_L == 16
LINE1_HOOKS == 2
LINE1_ZONE == 2
LINE1_FEED_POS == 2
LINE1_SORT_POS == 10
NLanes == 2
LaneCapacity == 1
HOLD_12H == 2
StationLoadTime == 2
StationMoveTime == 3
DepotTmax == 6
DepotMoveTime == 3
FeederGuard == 3
FeederMoveTime == 2
SorterGuard == 4
SorterMoveTime == 3
HOOK_SPEED == 1
MaxSchedJobs == 3
MaxCreated == 2
MaxLaps == 3
MaxSorterJobs == 3
LongHold == 20
MaxLaneT == 4
MaxLaneJobs == 3
MaxStationT == 5
MaxDepotT == 7

station_pos == [i \in 1..NStations |-> (i - 1) * StationSpacing]
PlcStations == 1..NStations
DepotMoveTimes == {DepotMoveTime - 1, DepotMoveTime, DepotTmax + 1}
FeederMoveTimes == {FeederMoveTime, FeederGuard + 1}
SorterMoveTimes == {SorterMoveTime, SorterGuard + 1}
SorterHolds == {HOLD_12H, LongHold}
LaneHolds == 0..HOLD_12H
StepDts == {0, 1}
StationMoveTimes == {StationLoadTime - 1, StationMoveTime}

\* ------------------------------------------------------- program constants
SPEED_COLLECT_CELLS == 1
SPEED_DRAIN_CELLS == 2
SPEED_LINE2_DRAIN_CELLS == 4
SafetyNum == 12
SafetyDen == 10
GapPercent == 35
LifoSpacing == 1

STATION_POS_M == <<1, 2, 4, 5>>
Stations == 1..Len(STATION_POS_M)

SpeedDen == SafetyDen * DRAIN_WINDOW_S
SPEED_COLLECT == SPEED_COLLECT_CELLS * SpeedDen
SPEED_DRAIN == SPEED_DRAIN_CELLS * SpeedDen
SPEED_LINE2_DRAIN == SPEED_LINE2_DRAIN_CELLS * SpeedDen

NBelts == BELTS_R * BELTS_C
Belts == 1..NBelts

\* ----------------------------------------------------------------- helpers
Min(a, b) == IF a <= b THEN a ELSE b
Max(a, b) == IF a >= b THEN a ELSE b

\* Distance covered in one tick at speed sp (Moving.step: pos += speed * dt).
Travel(sp) == sp \div SpeedDen

RECURSIVE InsertKeyed(_, _)
InsertKeyed(s, e) ==
    IF s = <<>> THEN <<e>>
    ELSE IF e[1] < Head(s)[1] THEN <<e>> \o s
    ELSE <<Head(s)>> \o InsertKeyed(Tail(s), e)

RECURSIVE SortKeyed(_)
SortKeyed(s) ==
    IF s = <<>> THEN <<>>
    ELSE InsertKeyed(SortKeyed(SubSeq(s, 1, Len(s) - 1)), s[Len(s)])

\* Python's list.sort / sorted: stable, ascending in Key (reverse=True is
\* the stable sort on the negated key).
sorted(s, Key(_)) ==
    LET ks == [i \in 1..Len(s) |-> <<Key(s[i]), s[i]>>]
        r  == SortKeyed(ks)
    IN  [i \in 1..Len(s) |-> r[i][2]]

RECURSIVE Concat(_)
Concat(ss) == IF ss = <<>> THEN <<>> ELSE Head(ss) \o Concat(Tail(ss))

Range(s) == {s[i] : i \in 1..Len(s)}
Ids(s) == {s[i].id : i \in 1..Len(s)}

\* serpentine_order without the reversal of the odd rows.
serpentine_order_row_major(rows, cols) ==
    Concat([r \in 1..rows |-> [c \in 1..cols |-> (r - 1) * cols + c]])

\* serpentine_order(rows, cols): row-major, odd rows reversed.
serpentine_order(rows, cols) ==
    Concat([r \in 1..rows |->
        [c \in 1..cols |->
            IF (r - 1) % 2 = 1 THEN (r - 1) * cols + (cols - c + 1)
            ELSE (r - 1) * cols + c]])

SERP_ORDER == serpentine_order(BELTS_R, BELTS_C)

\* A Moving item.  seg, length and wrap are fixed by the list that holds the
\* item and are not stored.
Moving(id, pos, speed, entered) ==
    [id |-> id, pos |-> pos, speed |-> speed, entered_area_at |-> entered]

\* ------------------------------------------------------------------- state
\* ConveyorSystem (src/conveyor_sim/system.py).  variant tells which of the
\* two ConveyorSystem classes runs: that of conveyor_sim/system.py or the
\* earlier one of conveyor_core.py, which has the same tick pipeline on
\* COLLECT and DRAIN but no line1, no HANG mode and fixed drain speeds.
VARIABLES variant, mode, t, next_id, rr, load_loop, line1, belts, line2, unl1, unl2,
          done_log, hanged_ids, ignore_gaps, drain_speed_belts,
          drain_speed_line2

\* The scan loop of main (src/PLC_deneme2.py) and its units
VARIABLES tnow, sim, st_fsm, st_hw, depot, dp_hw, jobs, job_seq, target_job,
          waiting_to_line1, line1_hooks, feeder, feeder_hw, sorter,
          sorter_hw, lanes, obs

cvars == <<variant, mode, t, next_id, rr, load_loop, line1, belts, line2, unl1, unl2,
           done_log, hanged_ids, ignore_gaps, drain_speed_belts,
           drain_speed_line2>>

pvars == <<tnow, sim, st_fsm, st_hw, depot, dp_hw, jobs, job_seq, target_job,
           waiting_to_line1, line1_hooks, feeder, feeder_hw, sorter,
           sorter_hw, lanes, obs>>

vars == <<cvars, pvars>>

\* The whole ConveyorSystem object as one value, for the step functions.
Self ==
    [mode |-> mode, t |-> t, next_id |-> next_id, rr |-> rr,
     load_loop |-> load_loop, line1 |-> line1, belts |-> belts,
     line2 |-> line2, unl1 |-> unl1, unl2 |-> unl2, done_log |-> done_log,
     hanged_ids |-> hanged_ids, ignore_gaps |-> ignore_gaps,
     drain_speed_belts |-> drain_speed_belts,
     drain_speed_line2 |-> drain_speed_line2]

Becomes(s) ==
    /\ variant' = variant
    /\ mode' = s.mode
    /\ t' = s.t
    /\ next_id' = s.next_id
    /\ rr' = s.rr
    /\ load_loop' = s.load_loop
    /\ line1' = s.line1
    /\ belts' = s.belts
    /\ line2' = s.line2
    /\ unl1' = s.unl1
    /\ unl2' = s.unl2
    /\ done_log' = s.done_log
    /\ hanged_ids' = s.hanged_ids
    /\ ignore_gaps' = s.ignore_gaps
    /\ drain_speed_belts' = s.drain_speed_belts
    /\ drain_speed_line2' = s.drain_speed_line2

_belt_gap == (GapPercent * BELT_LEN_M) \div 100

ConveyorSystem_init ==
    [mode |-> "COLLECT", t |-> 0, next_id |-> 1, rr |-> 0,
     load_loop |-> <<>>, line1 |-> <<>>, belts |-> [b \in Belts |-> <<>>],
     line2 |-> <<>>, unl1 |-> <<>>, unl2 |-> <<>>, done_log |-> <<>>,
     hanged_ids |-> {}, ignore_gaps |-> FALSE,
     drain_speed_belts |-> SPEED_DRAIN,
     drain_speed_line2 |-> SPEED_LINE2_DRAIN]

\* ------------------------------------------------------------ speed logic
\* Variant of _speed_for in which COLLECT moves the downstream lines at the
\* collect speed.
_speed_for_collect_moves_downstream(s, seg) ==
    IF s.mode = "COLLECT" THEN SPEED_COLLECT
    ELSE IF s.mode = "DRAIN" THEN
        CASE seg = "LOAD" -> 0
          [] seg = "B" -> s.drain_speed_belts
          [] seg = "L1" -> 0
          [] seg = "L2" -> s.drain_speed_line2
          [] seg \in {"U1", "U2"} -> s.drain_speed_belts
          [] OTHER -> 0
    ELSE IF s.mode = "HANG" THEN
        CASE seg = "LOAD" -> SPEED_COLLECT
          [] OTHER -> 0
    ELSE 0

_speed_for(s, seg) ==
    IF s.mode = "COLLECT" THEN
        CASE seg = "LOAD" -> SPEED_COLLECT
          [] seg = "B" -> SPEED_COLLECT
          [] OTHER -> 0
    ELSE IF s.mode = "DRAIN" THEN
        CASE seg = "LOAD" -> 0
          [] seg = "B" -> s.drain_speed_belts
          [] seg = "L1" -> 0
          [] seg = "L2" -> s.drain_speed_line2
          [] seg \in {"U1", "U2"} -> s.drain_speed_belts
          [] OTHER -> 0
    ELSE IF s.mode = "HANG" THEN
        CASE seg = "LOAD" -> SPEED_COLLECT
          [] OTHER -> 0
    ELSE 0

\* worst_remaining_distance(m) for an item of segment seg.
worst_remaining_distance(seg, m) ==
    CASE seg = "B" -> Max(0, BELT_LEN_M - m.pos) + LINE2_LEN_M + UNL_LEN_M
      [] seg = "L2" -> Max(0, LINE2_LEN_M - m.pos) + UNL_LEN_M
      [] seg \in {"U1", "U2"} -> Max(0, UNL_LEN_M - m.pos)
      [] seg \in {"LOAD", "L1"} -> LINE2_LEN_M + UNL_LEN_M + BELT_LEN_M
      [] OTHER -> BELT_LEN_M + LINE2_LEN_M + UNL_LEN_M

SetMax(S) == IF S = {} THEN 0 ELSE CHOOSE x \in S : \A y \in S : y <= x

\* The distances of all_items, as a set (only their maximum is used).
all_items_worst(s) ==
    {worst_remaining_distance("LOAD", m) : m \in Range(s.load_loop)}
    \cup {worst_remaining_distance("L1", m) : m \in Range(s.line1)}
    \cup UNION {{worst_remaining_distance("B", m) : m \in Range(s.belts[b])}
                : b \in Belts}
    \cup {worst_remaining_distance("L2", m) : m \in Range(s.line2)}
    \cup {worst_remaining_distance("U1", m) : m \in Range(s.unl1)}
    \cup {worst_remaining_distance("U2", m) : m \in Range(s.unl2)}

\* Variant of the drain-speed computation without the safety factor.
_compute_and_set_drain_speeds_no_safety(s) ==
    LET worst == SetMax(all_items_worst(s) \cup {0})
    IN  [s EXCEPT
            !.drain_speed_belts = Max(SPEED_DRAIN, SafetyDen * worst),
            !.drain_speed_line2 = Max(SPEED_LINE2_DRAIN, SafetyDen * worst)]

\* min_speed = worst / DRAIN_WINDOW_S; speed = max(floor, safety * min_speed).
\* As a numerator over SpeedDen = SafetyDen * DRAIN_WINDOW_S the product
\* safety * min_speed is exactly SafetyNum * worst.
_compute_and_set_drain_speeds(s) ==
    LET worst == SetMax(all_items_worst(s) \cup {0})
    IN  [s EXCEPT
            !.drain_speed_belts = Max(SPEED_DRAIN, SafetyNum * worst),
            !.drain_speed_line2 = Max(SPEED_LINE2_DRAIN, SafetyNum * worst)]

\* ------------------------------------------------------------ random draws
\* random.uniform(0, length): the two ends of the interval stand for the draw.
RandPos(length) == {0, length}
BeltSlots == [b : Belts, pos : RandPos(BELT_LEN_M)]
HangChoices ==
    [choice : {"L1"}, b : {1}, pos : RandPos(LINE2_LEN_M)]
    \cup [choice : {"BELT"}, b : Belts, pos : RandPos(BELT_LEN_M)]
    \cup [choice : {"LOAD"}, b : {1}, pos : RandPos(LOAD_LOOP_LEN_M)]

\* ------------------------------------------------------------------- steps
RECURSIVE spawn_from(_, _, _)
spawn_from(s, S, st) ==
    IF st > Len(STATION_POS_M) THEN s
    ELSE IF st \in S
    THEN spawn_from(
            [s EXCEPT
                !.load_loop = Append(@, Moving(s.next_id,
                                  STATION_POS_M[st] % LOAD_LOOP_LEN_M,
                                  SPEED_COLLECT, s.t)),
                !.next_id = @ + 1],
            S, st + 1)
    ELSE spawn_from(s, S, st + 1)

\* _spawn: S is the set of stations whose random draw yields one item
\* (lam = rate * DT < 1, so n is 0 or 1 per station and tick).
_spawn(s, S) == spawn_from(s, S, 1)

\* The crossing test of _step_load_loop, for a switch at position sw.
crossed_at(sw, prev, now, sp) ==
    /\ sp > 0
    /\ \/ (prev <= sw /\ sw <= now
              /\ 2 * (now - prev) <= LOAD_LOOP_LEN_M)
       \/ (prev > now /\ (sw >= prev \/ sw <= now))

crossed(prev, now, sp) == crossed_at(SW_POS_M, prev, now, sp)

load_loop_moved(s) ==
    LET sp == _speed_for(s, "LOAD")
    IN  [i \in 1..Len(s.load_loop) |->
            [s.load_loop[i] EXCEPT
                !.speed = sp,
                !.pos = (@ + Travel(sp)) % LOAD_LOOP_LEN_M]]

RECURSIVE arrived_from_at(_, _, _, _)
arrived_from_at(sw, s, moved, i) ==
    IF i > Len(moved) THEN <<>>
    ELSE (IF crossed_at(sw, s.load_loop[i].pos, moved[i].pos,
                        _speed_for(s, "LOAD"))
          THEN <<moved[i]>> ELSE <<>>)
         \o arrived_from_at(sw, s, moved, i + 1)

arrived_from(s, moved, i) == arrived_from_at(SW_POS_M, s, moved, i)

\* The items of load_loop that cross the switch position sw in this tick,
\* sorted by their new position.
load_loop_arrived_at(sw, s) ==
    sorted(arrived_from_at(sw, s, load_loop_moved(s), 1), LAMBDA m : m.pos)

load_loop_arrived(s) == load_loop_arrived_at(SW_POS_M, s)

RECURSIVE place_arrived(_, _, _)
place_arrived(s, arr, rnd) ==
    IF arr = <<>> THEN s
    ELSE LET m == Head(arr) IN
         IF s.mode = "HANG"
         THEN place_arrived(
                [s EXCEPT
                    !.belts[rnd[m.id].b] =
                        Append(@, Moving(m.id, rnd[m.id].pos, 0, s.t)),
                    !.hanged_ids = @ \cup {m.id}],
                Tail(arr), rnd)
         ELSE LET b == SERP_ORDER[(s.rr % NBelts) + 1] IN
              place_arrived(
                [s EXCEPT
                    !.rr = @ + 1,
                    !.belts[b] =
                        Append(@, Moving(m.id, 0, _speed_for(s, "B"), s.t))],
                Tail(arr), rnd)

\* Variant of _step_load_loop that places the arrived items on the belts but
\* leaves them on the load loop as well.
_step_load_loop_keeps_arrived(s, rnd) ==
    IF s.load_loop = <<>> THEN s
    ELSE LET arrived == load_loop_arrived(s)
             s1 == [s EXCEPT !.load_loop = load_loop_moved(s)]
         IN  IF arrived = <<>> THEN s1
             ELSE place_arrived(s1, arrived, rnd)

\* Variant of _step_load_loop whose crossing test misses the wraparound.
_step_load_loop_at_no_wrap(sw, s, rnd) ==
    IF s.load_loop = <<>> THEN s
    ELSE LET moved == load_loop_moved(s)
             sp == _speed_for(s, "LOAD")
             hit == {i \in 1..Len(moved) :
                       /\ sp > 0
                       /\ s.load_loop[i].pos <= sw
                       /\ sw <= moved[i].pos}
             arrived == sorted(SelectSeq(moved, LAMBDA m :
                            \E i \in hit : moved[i].id = m.id),
                            LAMBDA m : m.pos)
             s1 == [s EXCEPT !.load_loop = moved]
         IN  IF arrived = <<>> THEN s1
             ELSE LET s2 == place_arrived(s1, arrived, rnd)
                      ids == Ids(arrived)
                  IN  [s2 EXCEPT !.load_loop =
                          SelectSeq(@, LAMBDA m : m.id \notin ids)]

\* _step_load_loop with the switch at position sw (SW_POS_M is read from
\* the configuration).
_step_load_loop_at(sw, s, rnd) ==
    IF s.load_loop = <<>> THEN s
    ELSE LET arrived == load_loop_arrived_at(sw, s)
             s1 == [s EXCEPT !.load_loop = load_loop_moved(s)]
         IN  IF arrived = <<>> THEN s1
             ELSE LET s2 == place_arrived(s1, arrived, rnd)
                      ids == Ids(arrived)
                  IN  [s2 EXCEPT !.load_loop =
                          SelectSeq(@, LAMBDA m : m.id \notin ids)]

_step_load_loop(s, rnd) == _step_load_loop_at(SW_POS_M, s, rnd)

\* One belt of _step_belts: sort by position, move the leader, clamp the
\* followers behind it, and (in DRAIN) hand the items at the end to line2.
convoy(seg0, sp, allow_exit, ignore) ==
    LET seg == sorted(seg0, LAMBDA m : 0 - m.pos)
        d == Travel(sp)
        F[i \in 1..Len(seg)] ==
            IF i = 1
            THEN [seg[1] EXCEPT !.pos =
                    IF allow_exit THEN @ + d ELSE Min(@ + d, BELT_LEN_M)]
            ELSE IF ignore
            THEN [seg[i] EXCEPT !.pos = Max(0, @ + d)]
            ELSE LET gapped == F[i - 1].pos - _belt_gap
                     max_pos == IF allow_exit THEN gapped
                                ELSE Min(gapped, BELT_LEN_M)
                 IN  [seg[i] EXCEPT !.pos = Max(0, Min(@ + d, max_pos))]
    IN  [i \in 1..Len(seg) |-> F[i]]

RECURSIVE to_line2(_, _)
to_line2(s, out) ==
    IF out = <<>> THEN s
    ELSE to_line2(
            [s EXCEPT !.line2 =
                Append(@, Moving(Head(out).id, 0, _speed_for(s, "L2"), s.t))],
            Tail(out))

step_one_belt(s, idx) ==
    IF s.belts[idx] = <<>> THEN s
    ELSE LET allow_exit == (s.mode = "DRAIN")
             seg == convoy(s.belts[idx], _speed_for(s, "B"), allow_exit,
                           s.ignore_gaps)
         IN  IF allow_exit
             THEN to_line2(
                    [s EXCEPT !.belts[idx] =
                        SelectSeq(seg, LAMBDA m : m.pos < BELT_LEN_M)],
                    SelectSeq(seg, LAMBDA m : m.pos >= BELT_LEN_M))
             ELSE [s EXCEPT !.belts[idx] = seg]

RECURSIVE belts_from(_, _)
belts_from(s, k) ==
    IF k > Len(SERP_ORDER) THEN s
    ELSE belts_from(step_one_belt(s, SERP_ORDER[k]), k + 1)

_step_belts(s) == belts_from(s, 1)

RECURSIVE to_unloads(_, _)
to_unloads(s, arr) ==
    IF arr = <<>> THEN s
    ELSE LET m == Head(arr)
             s1 == IF s.rr % 2 = 0
                   THEN [s EXCEPT !.unl1 =
                           Append(@, Moving(m.id, 0, _speed_for(s, "U1"), s.t))]
                   ELSE [s EXCEPT !.unl2 =
                           Append(@, Moving(m.id, 0, _speed_for(s, "U2"), s.t))]
         IN  to_unloads([s1 EXCEPT !.rr = @ + 1], Tail(arr))

line_moved(seg, sp) ==
    [i \in 1..Len(seg) |->
        [seg[i] EXCEPT !.speed = sp, !.pos = @ + Travel(sp)]]

_step_line2(s) ==
    IF s.line2 = <<>> THEN s
    ELSE LET moved == line_moved(s.line2, _speed_for(s, "L2"))
             arrived == SelectSeq(moved, LAMBDA m : m.pos >= LINE2_LEN_M)
             ids == Ids(arrived)
         IN  IF arrived = <<>> THEN [s EXCEPT !.line2 = moved]
             ELSE to_unloads(
                    [s EXCEPT !.line2 =
                        SelectSeq(moved, LAMBDA m : m.id \notin ids)],
                    arrived)

\* One unload line: the items that reach its end are removed and logged.
unload_line(seg, sp) ==
    LET moved == line_moved(seg, sp)
        done == SelectSeq(moved, LAMBDA m : m.pos >= UNL_LEN_M)
    IN  [keep |-> SelectSeq(moved, LAMBDA m : m \notin Range(done)),
         done |-> [i \in 1..Len(done) |-> done[i].id]]

_step_unloads(s) ==
    LET r1 == unload_line(s.unl1, _speed_for(s, "U1"))
        s1 == [s EXCEPT !.unl1 = r1.keep, !.done_log = @ \o r1.done]
        r2 == unload_line(s1.unl2, _speed_for(s1, "U2"))
    IN  [s1 EXCEPT !.unl2 = r2.keep, !.done_log = @ \o r2.done]

\* What on_unloaded can read when _step_unloads(s) calls it: one state per
\* finished item, in the order of the calls.  At a call the line of the item
\* has already lost every item that finished with it, done_log holds the
\* finished items up to this one, and during the calls for unl1 the items of
\* unl2 have not been stepped.
on_unloaded_views(s) ==
    LET r1 == unload_line(s.unl1, _speed_for(s, "U1"))
        s1 == [s EXCEPT !.unl1 = r1.keep, !.done_log = @ \o r1.done]
        r2 == unload_line(s1.unl2, _speed_for(s1, "U2"))
    IN  [k \in 1..Len(r1.done) |->
            [s EXCEPT !.unl1 = r1.keep,
                      !.done_log = @ \o SubSeq(r1.done, 1, k)]]
        \o
        [k \in 1..Len(r2.done) |->
            [s1 EXCEPT !.unl2 = r2.keep,
                       !.done_log = @ \o SubSeq(r2.done, 1, k)]]

\* The state in which tick(s) enters _step_unloads.
before_unloads(s, S, rnd) ==
    _step_line2(_step_belts(
        _step_load_loop(_spawn([s EXCEPT !.t = @ + 1], S), rnd)))

\* report_done without the try/except around the call: the exception leaves
\* the loop and _step_unloads.
RECURSIVE report_done_uncaught(_, _, _)
report_done_uncaught(s, done, raises) ==
    IF done = <<>> THEN [s |-> s, exc |-> FALSE]
    ELSE LET s1 == [s EXCEPT !.done_log = Append(@, Head(done))]
         IN  IF Head(done) \in raises THEN [s |-> s1, exc |-> TRUE]
             ELSE report_done_uncaught(s1, Tail(done), raises)

\* for m in done: done_log.append(m.id), then on_unloaded(m.id, ...) inside
\* try/except, with a callback that raises for the ids in raises.  exc tells
\* whether an exception leaves the loop.
RECURSIVE report_done(_, _, _)
report_done(s, done, raises) ==
    IF done = <<>> THEN [s |-> s, exc |-> FALSE]
    ELSE LET s1 == [s EXCEPT !.done_log = Append(@, Head(done))]
         IN  IF Head(done) \in raises
             THEN report_done(s1, Tail(done), raises)    \* except: pass
             ELSE report_done(s1, Tail(done), raises)

\* _step_unloads with that callback: unl2 is stepped only if the part for
\* unl1 returns.
_step_unloads_raising(s, raises) ==
    LET r1 == unload_line(s.unl1, _speed_for(s, "U1"))
        a  == report_done([s EXCEPT !.unl1 = r1.keep], r1.done, raises)
    IN  IF a.exc THEN a
        ELSE LET r2 == unload_line(a.s.unl2, _speed_for(a.s, "U2"))
             IN  report_done([a.s EXCEPT !.unl2 = r2.keep], r2.done, raises)

tick_raising(s, S, rnd, raises) ==
    _step_unloads_raising(before_unloads(s, S, rnd), raises)

tick_at(sw, s, S, rnd) ==
    _step_unloads(_step_line2(_step_belts(
        _step_load_loop_at(sw, _spawn([s EXCEPT !.t = @ + 1], S), rnd))))

tick(s, S, rnd) ==
    _step_unloads(_step_line2(_step_belts(
        _step_load_loop(_spawn([s EXCEPT !.t = @ + 1], S), rnd))))

\* --------------------------------------------------------- mode operations
RECURSIVE hang_each(_, _, _)
hang_each(s, take, ch) ==
    IF take = <<>> THEN s
    ELSE LET m == Head(take)
             c == ch[m.id]
             s1 == CASE c.choice = "L1" ->
                          [s EXCEPT !.line1 =
                              Append(@, Moving(m.id, c.pos, 0, s.t))]
                     [] c.choice = "BELT" ->
                          [s EXCEPT !.belts[c.b] =
                              Append(@, Moving(m.id, c.pos, 0, s.t))]
                     [] OTHER ->
                          [s EXCEPT !.load_loop =
                              Append(@, Moving(m.id, c.pos, 0, s.t))]
         IN  hang_each([s1 EXCEPT !.hanged_ids = @ \cup {m.id}],
                       Tail(take), ch)

\* pick_and_hang without load_loop.clear().
pick_and_hang_keeps_loop(s, ch) ==
    IF s.load_loop = <<>> THEN s
    ELSE hang_each(s, s.load_loop, ch)

\* pick_and_hang: every item of load_loop goes to a random place, speed 0.
pick_and_hang(s, ch) ==
    IF s.load_loop = <<>> THEN s
    ELSE hang_each([s EXCEPT !.load_loop = <<>>], s.load_loop, ch)

RECURSIVE carry_each(_, _, _)
carry_each(s, carry, ch) ==
    IF carry = <<>> THEN s
    ELSE LET m == Head(carry)
             c == ch[m.id]
         IN  carry_each(
                [s EXCEPT
                    !.belts[c.b] = Append(@, Moving(m.id, c.pos, 0, s.t)),
                    !.hanged_ids = @ \cup {m.id}],
                Tail(carry), ch)

\* Variant of _enter_hang that copies the items of unl2 to the belts without
\* clearing unl2.
_enter_hang_keeps_unl2(s, ch) ==
    LET carry == s.line2 \o s.unl1 \o s.unl2
        s1 == [s EXCEPT !.mode = "HANG", !.ignore_gaps = FALSE,
                        !.line2 = <<>>, !.unl1 = <<>>]
        s2 == carry_each(s1, carry, ch)
    IN  [s2 EXCEPT !.belts =
            [b \in Belts |->
                [i \in 1..Len(s2.belts[b]) |->
                    [s2.belts[b][i] EXCEPT !.speed = 0]]]]

_enter_hang(s, ch) ==
    LET carry == s.line2 \o s.unl1 \o s.unl2
        s1 == [s EXCEPT !.mode = "HANG", !.ignore_gaps = FALSE,
                        !.line2 = <<>>, !.unl1 = <<>>, !.unl2 = <<>>]
        s2 == carry_each(s1, carry, ch)
    IN  [s2 EXCEPT !.belts =
            [b \in Belts |->
                [i \in 1..Len(s2.belts[b]) |->
                    [s2.belts[b][i] EXCEPT !.speed = 0]]]]

set_speed(seg, sp) == [i \in 1..Len(seg) |-> [seg[i] EXCEPT !.speed = sp]]

\* The LIFO list of toggle_mode: line1, the belts in key order, the hanged
\* items of load_loop; newest entered_area_at first.
lifo_list(s) ==
    sorted(s.line1
           \o Concat([b \in Belts |-> s.belts[b]])
           \o SelectSeq(s.load_loop, LAMBDA m : m.id \in s.hanged_ids),
           LAMBDA m : 0 - m.entered_area_at)

\* Variant of toggle_mode whose DRAIN -> COLLECT branch takes the items of
\* line2 back to the intake loop.
toggle_mode_migrates_back(s) ==
    IF s.mode # "DRAIN"
    THEN LET lifo == lifo_list(s)
             landed == [i \in 1..Len(lifo) |->
                          Moving(lifo[i].id,
                                 Min(LINE2_LEN_M - 1, (i - 1) * LifoSpacing),
                                 0, s.t)]
             s1 == [s EXCEPT
                      !.line1 = <<>>,
                      !.belts = [b \in Belts |-> <<>>],
                      !.load_loop =
                          SelectSeq(@, LAMBDA m : m.id \notin s.hanged_ids),
                      !.line2 = @ \o landed,
                      !.hanged_ids = {},
                      !.mode = "DRAIN",
                      !.ignore_gaps = TRUE]
             s2 == _compute_and_set_drain_speeds(s1)
         IN  [s2 EXCEPT
                !.load_loop = set_speed(@, _speed_for(s2, "LOAD")),
                !.belts = [b \in Belts |->
                              set_speed(s2.belts[b], _speed_for(s2, "B"))],
                !.line2 = set_speed(@, _speed_for(s2, "L2")),
                !.unl1 = set_speed(@, _speed_for(s2, "U1")),
                !.unl2 = set_speed(@, _speed_for(s2, "U2"))]
    ELSE [s EXCEPT !.mode = "COLLECT", !.ignore_gaps = FALSE,
                   !.load_loop = @ \o s.line2, !.line2 = <<>>]

toggle_mode(s) ==
    IF s.mode # "DRAIN"
    THEN LET lifo == lifo_list(s)
             landed == [i \in 1..Len(lifo) |->
                          Moving(lifo[i].id,
                                 Min(LINE2_LEN_M - 1, (i - 1) * LifoSpacing),
                                 0, s.t)]
             s1 == [s EXCEPT
                      !.line1 = <<>>,
                      !.belts = [b \in Belts |-> <<>>],
                      !.load_loop =
                          SelectSeq(@, LAMBDA m : m.id \notin s.hanged_ids),
                      !.line2 = @ \o landed,
                      !.hanged_ids = {},
                      !.mode = "DRAIN",
                      !.ignore_gaps = TRUE]
             s2 == _compute_and_set_drain_speeds(s1)
         IN  [s2 EXCEPT
                !.load_loop = set_speed(@, _speed_for(s2, "LOAD")),
                !.belts = [b \in Belts |->
                              set_speed(s2.belts[b], _speed_for(s2, "B"))],
                !.line2 = set_speed(@, _speed_for(s2, "L2")),
                !.unl1 = set_speed(@, _speed_for(s2, "U1")),
                !.unl2 = set_speed(@, _speed_for(s2, "U2"))]
    ELSE [s EXCEPT !.mode = "COLLECT", !.ignore_gaps = FALSE]

set_mode(s, m, ch) ==
    IF m = "HANG" THEN _enter_hang(s, ch)
    ELSE [s EXCEPT !.mode = m, !.ignore_gaps = (m = "DRAIN")]

\* conveyor_core.py: toggle_mode and set_mode only change the mode.
core_toggle_mode(s) ==
    [s EXCEPT !.mode = IF s.mode = "COLLECT" THEN "DRAIN" ELSE "COLLECT"]

core_set_mode(s, m) == [s EXCEPT !.mode = m]

Variants == {"system", "core"}
Modes(v) ==
    IF v = "core" THEN {"COLLECT", "DRAIN"} ELSE {"COLLECT", "DRAIN", "HANG"}

\* ----------------------------------------------------------------- actions
Created(s) == s.next_id - 1

\* The stations that may _spawn in one tick, within the item bound.
SpawnSets(s) ==
    {S \in SUBSET Stations : Created(s) + Cardinality(S) <= MaxItems}

NoDraw == [i \in {} |-> 0]

Tick ==
    /\ UNCHANGED pvars
    /\ t < MaxT
    /\ \E S \in SpawnSets(Self) :
          LET s1 == _spawn([Self EXCEPT !.t = @ + 1], S)
              ids == Ids(load_loop_arrived(s1))
          IN  \E rnd \in (IF mode = "HANG" THEN [ids -> BeltSlots]
                          ELSE {NoDraw}) :
                 Becomes(tick(Self, S, rnd))

ToggleMode ==
    /\ UNCHANGED pvars
    /\ Becomes(IF variant = "core" THEN core_toggle_mode(Self)
               ELSE toggle_mode(Self))

CarryIds == Ids(line2) \cup Ids(unl1) \cup Ids(unl2)

SetMode ==
    /\ UNCHANGED pvars
    /\ \E m \in Modes(variant) :
       \E ch \in (IF m = "HANG" THEN [CarryIds -> BeltSlots] ELSE {NoDraw}) :
          Becomes(IF variant = "core" THEN core_set_mode(Self, m)
                  ELSE set_mode(Self, m, ch))

EnterHang ==
    /\ UNCHANGED pvars
    /\ variant = "system"
    /\ \E ch \in [CarryIds -> BeltSlots] : Becomes(_enter_hang(Self, ch))

PickAndHang ==
    /\ UNCHANGED pvars
    /\ variant = "system"
    /\ load_loop # <<>>
    /\ \E ch \in [Ids(load_loop) -> HangChoices] :
          Becomes(pick_and_hang(Self, ch))

ConveyorInitOf(v) ==
    /\ variant = v
    /\ mode = ConveyorSystem_init.mode
    /\ t = ConveyorSystem_init.t
    /\ next_id = ConveyorSystem_init.next_id
    /\ rr = ConveyorSystem_init.rr
    /\ load_loop = ConveyorSystem_init.load_loop
    /\ line1 = ConveyorSystem_init.line1
    /\ belts = ConveyorSystem_init.belts
    /\ line2 = ConveyorSystem_init.line2
    /\ unl1 = ConveyorSystem_init.unl1
    /\ unl2 = ConveyorSystem_init.unl2
    /\ done_log = ConveyorSystem_init.done_log
    /\ hanged_ids = ConveyorSystem_init.hanged_ids
    /\ ignore_gaps = ConveyorSystem_init.ignore_gaps
    /\ drain_speed_belts = ConveyorSystem_init.drain_speed_belts
    /\ drain_speed_line2 = ConveyorSystem_init.drain_speed_line2

ConveyorInit == ConveyorInitOf("system")

\* ===========================================================================
\* Part II: the PLC scan loop (src/PLC_deneme2.py)
\*
\* Time is counted in scans (one scan period per unit); ring lengths, hook
\* and lane counts are configuration of main, run here at a reduced scale.
\* Python's None is the integer None (ids start at 1, times at 0).
\* ===========================================================================
None == -1
scan == 1
max_laps_for_old == 2

\* ------------------------------------------------------------ TON (timer)
TON(pt) == [pt |-> pt, start |-> None, q |-> FALSE, et |-> 0]

TON_update(ton, en, now) ==
    IF en
    THEN IF ton.start = None
         THEN [ton EXCEPT !.start = now, !.et = 0, !.q = FALSE]
         ELSE [ton EXCEPT !.et = now - ton.start,
                          !.q = (now - ton.start >= ton.pt)]
    ELSE [ton EXCEPT !.start = None, !.et = 0, !.q = FALSE]

\* ------------------------------------------------------------- SwapperHW
SwapperHW(move_time) ==
    [ready |-> TRUE, busy |-> FALSE, complete |-> FALSE,
     ton |-> TON(move_time), latched_complete |-> 0]

\* Variant of SwapperHW.step without the latch: complete is cleared by the
\* first step after the one that set it.
SwapperHW_step_no_latch(hw, cmd, now) ==
    LET h1 == IF cmd /\ hw.ready /\ ~hw.busy
              THEN [hw EXCEPT !.ready = FALSE, !.busy = TRUE,
                              !.ton = TON_update(@, TRUE, now)]
              ELSE hw
    IN  IF h1.busy
        THEN LET tn == TON_update(h1.ton, TRUE, now)
             IN  IF tn.q
                 THEN [h1 EXCEPT !.busy = FALSE, !.complete = TRUE,
                                 !.latched_complete = 0,
                                 !.ton = TON_update(tn, FALSE, now)]
                 ELSE [h1 EXCEPT !.ton = tn]
        ELSE IF h1.latched_complete > 0
             THEN [h1 EXCEPT !.latched_complete = @ - 1]
             ELSE [h1 EXCEPT !.complete = FALSE, !.ready = TRUE]

\* Variant of SwapperHW.step that starts a cycle on any command given while
\* the unit is not busy.
SwapperHW_step_starts_unready(hw, cmd, now) ==
    LET h1 == IF cmd /\ ~hw.busy
              THEN [hw EXCEPT !.ready = FALSE, !.busy = TRUE,
                              !.complete = FALSE,
                              !.ton = TON_update(@, TRUE, now)]
              ELSE hw
    IN  IF h1.busy
        THEN LET tn == TON_update(h1.ton, TRUE, now)
             IN  IF tn.q
                 THEN [h1 EXCEPT !.busy = FALSE, !.complete = TRUE,
                                 !.latched_complete = 1,
                                 !.ton = TON_update(tn, FALSE, now)]
                 ELSE [h1 EXCEPT !.ton = tn]
        ELSE IF h1.latched_complete > 0
             THEN [h1 EXCEPT !.latched_complete = @ - 1]
             ELSE [h1 EXCEPT !.complete = FALSE, !.ready = TRUE]

SwapperHW_step(hw, cmd, now) ==
    LET h1 == IF cmd /\ hw.ready /\ ~hw.busy
              THEN [hw EXCEPT !.ready = FALSE, !.busy = TRUE,
                              !.ton = TON_update(@, TRUE, now)]
              ELSE hw
    IN  IF h1.busy
        THEN LET tn == TON_update(h1.ton, TRUE, now)
             IN  IF tn.q
                 THEN [h1 EXCEPT !.busy = FALSE, !.complete = TRUE,
                                 !.latched_complete = 1,
                                 !.ton = TON_update(tn, FALSE, now)]
                 ELSE [h1 EXCEPT !.ton = tn]
        ELSE IF h1.latched_complete > 0
             THEN [h1 EXCEPT !.latched_complete = @ - 1]
             ELSE [h1 EXCEPT !.complete = FALSE, !.ready = TRUE]

\* ------------------------------------------------- Hook and ConveyorSim
Hook(id, pos, speed) ==
    [id |-> id, pos |-> pos, speed |-> speed, load_id |-> None]

ring_dist(a, b, L) == Min((a - b) % L, (b - a) % L)

add_hooks(count, L, speed) ==
    [i \in 1..count |-> Hook(i, ((i - 1) * (L \div count)) % L, speed)]

move_hooks(hooks, dt, L) ==
    [i \in 1..Len(hooks) |->
        [hooks[i] EXCEPT !.pos = (@ + hooks[i].speed * dt) % L]]

\* nearest hook to position s: sorted(...)[0] / min(...), first among ties
nearest_hook(hooks, s, L) ==
    Head(sorted(hooks, LAMBDA h : ring_dist(h.pos, s, L)))

set_load(hooks, hid, load) ==
    [i \in 1..Len(hooks) |->
        IF hooks[i].id = hid THEN [hooks[i] EXCEPT !.load_id = load]
        ELSE hooks[i]]

\* --------------------------------------------------- Job and LifoScheduler
Job(id, station, hook_id, created_at) ==
    [id |-> id, station |-> station, hook_id |-> hook_id,
     created_at |-> created_at, laps |-> 0]

\* "no job": what pick_next_job returns for an empty list
NoJob ==
    [id |-> None, station |-> None, hook_id |-> None,
     created_at |-> None, laps |-> None]

LifoScheduler_add(js, j) == Append(js, j)

on_hook_passed_depot(js, hook_id) ==
    [i \in 1..Len(js) |->
        IF js[i].hook_id = hook_id THEN [js[i] EXCEPT !.laps = @ + 1]
        ELSE js[i]]

\* Variant of pick_next_job without the aged branch (always the newest).
pick_next_job_newest_only(js) ==
    IF js = <<>> THEN [ret |-> NoJob, jobs |-> js]
    ELSE [ret  |-> Head(sorted(js, LAMBDA j : 0 - j.created_at)),
          jobs |-> js]

\* Variant of pick_next_job that sorts the job list in place (list.sort).
pick_next_job_sorts_in_place(js) ==
    IF js = <<>> THEN [ret |-> NoJob, jobs |-> js]
    ELSE LET aged == SelectSeq(js, LAMBDA j : j.laps >= max_laps_for_old)
             newest == sorted(js, LAMBDA j : 0 - j.created_at)
         IN  IF aged # <<>>
             THEN [ret  |-> Head(sorted(aged, LAMBDA j : j.created_at)),
                   jobs |-> js]
             ELSE [ret |-> Head(newest), jobs |-> newest]

\* Returns the pick and the job list the call leaves behind (sorted() builds
\* new lists, so the list is left as it was).
pick_next_job(js) ==
    IF js = <<>> THEN [ret |-> NoJob, jobs |-> js]
    ELSE LET aged == SelectSeq(js, LAMBDA j : j.laps >= max_laps_for_old)
         IN  IF aged # <<>>
             THEN [ret  |-> Head(sorted(aged, LAMBDA j : j.created_at)),
                   jobs |-> js]
             ELSE [ret  |-> Head(sorted(js, LAMBDA j : 0 - j.created_at)),
                   jobs |-> js]

LifoScheduler_remove(js, job_id) == SelectSeq(js, LAMBDA j : j.id # job_id)

\* ------------------------------------------------------------- StationFSM
StationInputs(hook_present, hook_id, request_load, reset) ==
    [hook_present |-> hook_present, hook_id |-> hook_id,
     request_load |-> request_load, reset |-> reset]

StationFSM(load_time) ==
    [state |-> "IDLE",
     out |-> [cmd |-> FALSE, busy |-> FALSE, done_pulse |-> FALSE],
     ton |-> TON(load_time), armed |-> FALSE]

arm(f) == [f EXCEPT !.armed = TRUE]

\* Variant of StationFSM.scan that starts without looking at the unit.
StationFSM_scan_ignores_ready(f, hw, i, now) ==
    LET f0 == [f EXCEPT !.out.done_pulse = FALSE]
        f1 == IF i.reset THEN [f0 EXCEPT !.state = "IDLE", !.armed = FALSE]
              ELSE f0
    IN  IF f1.state = "IDLE"
        THEN LET f2 == [f1 EXCEPT !.out.cmd = FALSE, !.out.busy = FALSE,
                                  !.armed = (@ \/ i.request_load)]
             IN  IF f2.armed /\ i.hook_present /\ i.hook_id # None
                 THEN [fsm |-> [f2 EXCEPT !.out.cmd = TRUE, !.out.busy = TRUE,
                                          !.ton = TON_update(@, TRUE, now),
                                          !.state = "LOADING"],
                       hw |-> hw]
                 ELSE [fsm |-> f2, hw |-> hw]
        ELSE IF f1.state = "LOADING"
        THEN LET tn  == TON_update(f1.ton, TRUE, now)
                 hw1 == SwapperHW_step(hw, f1.out.cmd, now)
             IN  IF hw1.complete \/ tn.q
                 THEN [fsm |-> [f1 EXCEPT !.out.cmd = FALSE,
                                          !.out.busy = FALSE,
                                          !.out.done_pulse = TRUE,
                                          !.armed = FALSE,
                                          !.ton = TON_update(tn, FALSE, now),
                                          !.state = "DONE"],
                       hw |-> hw1]
                 ELSE [fsm |-> [f1 EXCEPT !.ton = tn], hw |-> hw1]
        ELSE IF ~i.hook_present
             THEN [fsm |-> [f1 EXCEPT !.state = "IDLE"], hw |-> hw]
             ELSE [fsm |-> f1, hw |-> hw]

\* Variant of StationFSM.scan that does not clear done_pulse on entry.
StationFSM_scan_keeps_pulse(f, hw, i, now) ==
    LET f0 == f
        f1 == IF i.reset THEN [f0 EXCEPT !.state = "IDLE", !.armed = FALSE]
              ELSE f0
    IN  IF f1.state = "IDLE"
        THEN LET f2 == [f1 EXCEPT !.out.cmd = FALSE, !.out.busy = FALSE,
                                  !.armed = (@ \/ i.request_load)]
             IN  IF f2.armed /\ i.hook_present /\ i.hook_id # None /\ hw.ready
                 THEN [fsm |-> [f2 EXCEPT !.out.cmd = TRUE, !.out.busy = TRUE,
                                          !.ton = TON_update(@, TRUE, now),
                                          !.state = "LOADING"],
                       hw |-> hw]
                 ELSE [fsm |-> f2, hw |-> hw]
        ELSE IF f1.state = "LOADING"
        THEN LET tn  == TON_update(f1.ton, TRUE, now)
                 hw1 == SwapperHW_step(hw, f1.out.cmd, now)
             IN  IF hw1.complete \/ tn.q
                 THEN [fsm |-> [f1 EXCEPT !.out.cmd = FALSE,
                                          !.out.busy = FALSE,
                                          !.out.done_pulse = TRUE,
                                          !.armed = FALSE,
                                          !.ton = TON_update(tn, FALSE, now),
                                          !.state = "DONE"],
                       hw |-> hw1]
                 ELSE [fsm |-> [f1 EXCEPT !.ton = tn], hw |-> hw1]
        ELSE IF ~i.hook_present
             THEN [fsm |-> [f1 EXCEPT !.state = "IDLE"], hw |-> hw]
             ELSE [fsm |-> f1, hw |-> hw]

\* Variant of StationFSM.scan that leaves DONE after one scan.
StationFSM_scan_done_once(f, hw, i, now) ==
    LET f0 == [f EXCEPT !.out.done_pulse = FALSE]
        f1 == IF i.reset THEN [f0 EXCEPT !.state = "IDLE", !.armed = FALSE]
              ELSE f0
    IN  IF f1.state = "IDLE"
        THEN LET f2 == [f1 EXCEPT !.out.cmd = FALSE, !.out.busy = FALSE,
                                  !.armed = (@ \/ i.request_load)]
             IN  IF f2.armed /\ i.hook_present /\ i.hook_id # None /\ hw.ready
                 THEN [fsm |-> [f2 EXCEPT !.out.cmd = TRUE, !.out.busy = TRUE,
                                          !.ton = TON_update(@, TRUE, now),
                                          !.state = "LOADING"],
                       hw |-> hw]
                 ELSE [fsm |-> f2, hw |-> hw]
        ELSE IF f1.state = "LOADING"
        THEN LET tn  == TON_update(f1.ton, TRUE, now)
                 hw1 == SwapperHW_step(hw, f1.out.cmd, now)
             IN  IF hw1.complete \/ tn.q
                 THEN [fsm |-> [f1 EXCEPT !.out.cmd = FALSE,
                                          !.out.busy = FALSE,
                                          !.out.done_pulse = TRUE,
                                          !.armed = FALSE,
                                          !.ton = TON_update(tn, FALSE, now),
                                          !.state = "DONE"],
                       hw |-> hw1]
                 ELSE [fsm |-> [f1 EXCEPT !.ton = tn], hw |-> hw1]
        ELSE [fsm |-> [f1 EXCEPT !.state = "IDLE"], hw |-> hw]

\* scan steps the equipment unit it owns: the result is the FSM and the unit.
StationFSM_scan(f, hw, i, now) ==
    LET f0 == [f EXCEPT !.out.done_pulse = FALSE]
        f1 == IF i.reset THEN [f0 EXCEPT !.state = "IDLE", !.armed = FALSE]
              ELSE f0
    IN  IF f1.state = "IDLE"
        THEN LET f2 == [f1 EXCEPT !.out.cmd = FALSE, !.out.busy = FALSE,
                                  !.armed = (@ \/ i.request_load)]
             IN  IF f2.armed /\ i.hook_present /\ i.hook_id # None /\ hw.ready
                 THEN [fsm |-> [f2 EXCEPT !.out.cmd = TRUE, !.out.busy = TRUE,
                                          !.ton = TON_update(@, TRUE, now),
                                          !.state = "LOADING"],
                       hw |-> hw]
                 ELSE [fsm |-> f2, hw |-> hw]
        ELSE IF f1.state = "LOADING"
        THEN LET tn  == TON_update(f1.ton, TRUE, now)
                 hw1 == SwapperHW_step(hw, f1.out.cmd, now)
             IN  IF hw1.complete \/ tn.q
                 THEN [fsm |-> [f1 EXCEPT !.out.cmd = FALSE,
                                          !.out.busy = FALSE,
                                          !.out.done_pulse = TRUE,
                                          !.armed = FALSE,
                                          !.ton = TON_update(tn, FALSE, now),
                                          !.state = "DONE"],
                       hw |-> hw1]
                 ELSE [fsm |-> [f1 EXCEPT !.ton = tn], hw |-> hw1]
        ELSE IF ~i.hook_present
             THEN [fsm |-> [f1 EXCEPT !.state = "IDLE"], hw |-> hw]
             ELSE [fsm |-> f1, hw |-> hw]

\* --------------------------------------------------------------- DepotFSM
DepotInputs(hook_present, hook_id, target_hook_id, hw_ready, hw_complete) ==
    [hook_present |-> hook_present, hook_id |-> hook_id,
     target_hook_id |-> target_hook_id, hw_ready |-> hw_ready,
     hw_complete |-> hw_complete]

DepotFSM(tmax) ==
    [state |-> "IDLE",
     out |-> [cmd |-> FALSE, busy |-> FALSE, active_target |-> None],
     ton |-> TON(tmax)]

\* Variant of DepotFSM.scan that leaves the command asserted when it leaves
\* TRANSFER.
DepotFSM_scan_keeps_cmd(f, hw, i, now) ==
    IF f.state = "IDLE"
    THEN [fsm |-> [f EXCEPT !.out.cmd = FALSE, !.out.busy = FALSE,
                            !.out.active_target = i.target_hook_id,
                            !.state = IF i.target_hook_id # None
                                      THEN "WAIT_TARGET" ELSE "IDLE"],
          hw |-> hw]
    ELSE IF f.state = "WAIT_TARGET"
    THEN LET f1 == [f EXCEPT !.out.active_target = i.target_hook_id]
         IN  IF i.target_hook_id = None
             THEN [fsm |-> [f1 EXCEPT !.state = "IDLE"], hw |-> hw]
             ELSE IF i.hook_present /\ i.hook_id = i.target_hook_id
                     /\ i.hw_ready
             THEN [fsm |-> [f1 EXCEPT !.out.cmd = TRUE, !.out.busy = TRUE,
                                      !.ton = TON_update(@, TRUE, now),
                                      !.state = "TRANSFER"],
                   hw |-> hw]
             ELSE [fsm |-> f1, hw |-> hw]
    ELSE LET hw1 == SwapperHW_step(hw, f.out.cmd, now)
             tn  == TON_update(f.ton, TRUE, now)
         IN  IF i.hw_complete \/ tn.q
             THEN [fsm |-> [f EXCEPT !.ton = TON_update(tn, FALSE, now),
                                     !.state = "IDLE"],
                   hw |-> hw1]
             ELSE [fsm |-> [f EXCEPT !.ton = tn], hw |-> hw1]

\* Variant of DepotFSM.scan that leaves TRANSFER on its timer only.
DepotFSM_scan_timer_only(f, hw, i, now) ==
    IF f.state = "IDLE"
    THEN [fsm |-> [f EXCEPT !.out.cmd = FALSE, !.out.busy = FALSE,
                            !.out.active_target = i.target_hook_id,
                            !.state = IF i.target_hook_id # None
                                      THEN "WAIT_TARGET" ELSE "IDLE"],
          hw |-> hw]
    ELSE IF f.state = "WAIT_TARGET"
    THEN LET f1 == [f EXCEPT !.out.active_target = i.target_hook_id]
         IN  IF i.target_hook_id = None
             THEN [fsm |-> [f1 EXCEPT !.state = "IDLE"], hw |-> hw]
             ELSE IF i.hook_present /\ i.hook_id = i.target_hook_id
                     /\ i.hw_ready
             THEN [fsm |-> [f1 EXCEPT !.out.cmd = TRUE, !.out.busy = TRUE,
                                      !.ton = TON_update(@, TRUE, now),
                                      !.state = "TRANSFER"],
                   hw |-> hw]
             ELSE [fsm |-> f1, hw |-> hw]
    ELSE LET hw1 == SwapperHW_step(hw, f.out.cmd, now)
             tn  == TON_update(f.ton, TRUE, now)
         IN  IF tn.q
             THEN [fsm |-> [f EXCEPT !.out.cmd = FALSE, !.out.busy = FALSE,
                                     !.ton = TON_update(tn, FALSE, now),
                                     !.state = "IDLE"],
                   hw |-> hw1]
             ELSE [fsm |-> [f EXCEPT !.ton = tn], hw |-> hw1]

\* Variant of DepotFSM.scan that commands without looking at the unit.
DepotFSM_scan_ignores_ready(f, hw, i, now) ==
    IF f.state = "IDLE"
    THEN [fsm |-> [f EXCEPT !.out.cmd = FALSE, !.out.busy = FALSE,
                            !.out.active_target = i.target_hook_id,
                            !.state = IF i.target_hook_id # None
                                      THEN "WAIT_TARGET" ELSE "IDLE"],
          hw |-> hw]
    ELSE IF f.state = "WAIT_TARGET"
    THEN LET f1 == [f EXCEPT !.out.active_target = i.target_hook_id]
         IN  IF i.target_hook_id = None
             THEN [fsm |-> [f1 EXCEPT !.state = "IDLE"], hw |-> hw]
             ELSE IF i.hook_present /\ i.hook_id = i.target_hook_id
             THEN [fsm |-> [f1 EXCEPT !.out.cmd = TRUE, !.out.busy = TRUE,
                                      !.ton = TON_update(@, TRUE, now),
                                      !.state = "TRANSFER"],
                   hw |-> hw]
             ELSE [fsm |-> f1, hw |-> hw]
    ELSE LET hw1 == SwapperHW_step(hw, f.out.cmd, now)
             tn  == TON_update(f.ton, TRUE, now)
         IN  IF i.hw_complete \/ tn.q
             THEN [fsm |-> [f EXCEPT !.out.cmd = FALSE, !.out.busy = FALSE,
                                     !.ton = TON_update(tn, FALSE, now),
                                     !.state = "IDLE"],
                   hw |-> hw1]
             ELSE [fsm |-> [f EXCEPT !.ton = tn], hw |-> hw1]

DepotFSM_scan(f, hw, i, now) ==
    IF f.state = "IDLE"
    THEN [fsm |-> [f EXCEPT !.out.cmd = FALSE, !.out.busy = FALSE,
                            !.out.active_target = i.target_hook_id,
                            !.state = IF i.target_hook_id # None
                                      THEN "WAIT_TARGET" ELSE "IDLE"],
          hw |-> hw]
    ELSE IF f.state = "WAIT_TARGET"
    THEN LET f1 == [f EXCEPT !.out.active_target = i.target_hook_id]
         IN  IF i.target_hook_id = None
             THEN [fsm |-> [f1 EXCEPT !.state = "IDLE"], hw |-> hw]
             ELSE IF i.hook_present /\ i.hook_id = i.target_hook_id
                     /\ i.hw_ready
             THEN [fsm |-> [f1 EXCEPT !.out.cmd = TRUE, !.out.busy = TRUE,
                                      !.ton = TON_update(@, TRUE, now),
                                      !.state = "TRANSFER"],
                   hw |-> hw]
             ELSE [fsm |-> f1, hw |-> hw]
    ELSE LET hw1 == SwapperHW_step(hw, f.out.cmd, now)
             tn  == TON_update(f.ton, TRUE, now)
         IN  IF i.hw_complete \/ tn.q
             THEN [fsm |-> [f EXCEPT !.out.cmd = FALSE, !.out.busy = FALSE,
                                     !.ton = TON_update(tn, FALSE, now),
                                     !.state = "IDLE"],
                   hw |-> hw1]
             ELSE [fsm |-> [f EXCEPT !.ton = tn], hw |-> hw1]

\* ----------------------------------------------------------- ConveyorLine
nearest_hook_info(hooks, at_pos) ==
    IF hooks = <<>> THEN [near |-> FALSE, hid |-> None]
    ELSE LET h    == nearest_hook(hooks, at_pos, LINE1_L)
             near == ring_dist(h.pos, at_pos, LINE1_L) <= LINE1_ZONE
         IN  [near |-> near, hid |-> IF near THEN h.id ELSE None]

assign_job_to_free_hook_near(hooks, at_pos, job_id) ==
    LET free == SelectSeq(hooks, LAMBDA h : h.load_id = None)
    IN  IF hooks = <<>> \/ free = <<>> THEN [hooks |-> hooks, hid |-> None]
        ELSE LET h == nearest_hook(free, at_pos, LINE1_L)
             IN  IF ring_dist(h.pos, at_pos, LINE1_L) <= LINE1_ZONE
                 THEN [hooks |-> set_load(hooks, h.id, job_id), hid |-> h.id]
                 ELSE [hooks |-> hooks, hid |-> None]

\* ------------------------------------------------------------- BufferLane
BufferLane(lane_id, capacity) ==
    [id |-> lane_id, capacity |-> capacity, slots |-> <<>>,
     release_at |-> [j \in {} |-> 0]]

\* Variant of can_accept that still accepts at capacity.
can_accept_at_capacity(ln) == Len(ln.slots) <= ln.capacity

can_accept(ln) == Len(ln.slots) < ln.capacity

put(ln, job_id, now_sim, hold_seconds) ==
    [ln EXCEPT !.slots = Append(@, job_id),
               !.release_at = [j \in DOMAIN @ \cup {job_id} |->
                                  IF j = job_id THEN now_sim + hold_seconds
                                  ELSE @[j]]]

\* Variant of the release test with a strict comparison.
released_strictly_after(ln, now_sim) ==
    SelectSeq(ln.slots, LAMBDA jid :
        jid \in DOMAIN ln.release_at /\ ln.release_at[jid] < now_sim)

released(ln, now_sim) ==
    SelectSeq(ln.slots, LAMBDA jid :
        jid \in DOMAIN ln.release_at /\ ln.release_at[jid] <= now_sim)

\* Variant of tick_release that returns the due jobs without removing them.
tick_release_keeps_slots(ln, now_sim) ==
    [lane |-> ln, rel |-> released(ln, now_sim)]

tick_release(ln, now_sim) ==
    LET rel == released(ln, now_sim)
    IN  [lane |-> [ln EXCEPT
                     !.slots = SelectSeq(@, LAMBDA jid : jid \notin Range(rel)),
                     !.release_at = [j \in DOMAIN @ \ Range(rel) |-> @[j]]],
         rel |-> rel]

\* -------------------------------------------------------------- FeederFSM
FeederFSM(guard_time) ==
    [state |-> "IDLE", current_job |-> None, ton |-> TON(guard_time)]

FeederFSM_scan(f, hw, next_job, hooks, now) ==
    LET same == [fsm |-> f, hw |-> hw, hooks |-> hooks,
                 transferred |-> FALSE, bound |-> None]
    IN  IF f.state = "IDLE"
        THEN IF next_job # None /\ hw.ready
                /\ nearest_hook_info(hooks, LINE1_FEED_POS).near
             THEN [same EXCEPT !.fsm = [f EXCEPT
                                  !.current_job = next_job,
                                  !.ton = TON_update(@, TRUE, now),
                                  !.state = "TRANSFER"]]
             ELSE same
        ELSE LET hw1 == SwapperHW_step(hw, TRUE, now)
                 tn  == TON_update(f.ton, TRUE, now)
                 a   == assign_job_to_free_hook_near(hooks, LINE1_FEED_POS,
                                                     f.current_job)
             IN  IF hw1.complete
                 THEN [fsm |-> [f EXCEPT !.ton = TON_update(tn, FALSE, now),
                                         !.state = "IDLE",
                                         !.current_job = None],
                       hw |-> hw1, hooks |-> a.hooks,
                       transferred |-> a.hid # None, bound |-> a.hid]
                 ELSE IF tn.q
                 THEN [same EXCEPT !.fsm = [f EXCEPT
                                      !.ton = TON_update(tn, FALSE, now),
                                      !.state = "IDLE"],
                                   !.hw = hw1]
                 ELSE [same EXCEPT !.fsm = [f EXCEPT !.ton = tn], !.hw = hw1]

\* -------------------------------------------------------------- SorterFSM
SorterFSM(guard_time, hold_seconds) ==
    [state |-> "IDLE", ton |-> TON(guard_time), target_lane |-> None,
     hold_seconds |-> hold_seconds]

free_lanes(lns) == {lns[k].id : k \in {n \in 1..Len(lns) : can_accept(lns[n])}}

\* random.choice(free): draw is the lane the generator picks among the free
pick_lane(lns, draw) == IF free_lanes(lns) = {} THEN None ELSE draw

\* SorterFSM.scan without hook.load_id = None at the hand-off.
SorterFSM_scan_keeps_load(f, hw, hooks, lns, now_sim, now, draw) ==
    LET info   == nearest_hook_info(hooks, LINE1_SORT_POS)
        loaded == info.hid # None
                  /\ \E k \in 1..Len(hooks) :
                        hooks[k].id = info.hid /\ hooks[k].load_id # None
        jid    == (CHOOSE k \in 1..Len(hooks) : hooks[k].id = info.hid)
        same   == [fsm |-> f, hw |-> hw, hooks |-> hooks, lanes |-> lns,
                   res |-> <<>>]
    IN  IF f.state = "IDLE"
        THEN LET lnid == pick_lane(lns, draw)
             IN  IF info.near /\ loaded /\ hw.ready /\ lnid # None
                 THEN [same EXCEPT !.fsm = [f EXCEPT
                                      !.target_lane = lnid,
                                      !.ton = TON_update(@, TRUE, now),
                                      !.state = "TRANSFER"]]
                 ELSE same
        ELSE LET hw1 == SwapperHW_step(hw, TRUE, now)
                 tn  == TON_update(f.ton, TRUE, now)
             IN  IF hw1.complete
                 THEN IF loaded /\ f.target_lane # None
                      THEN [fsm |-> [f EXCEPT
                                       !.ton = TON_update(tn, FALSE, now),
                                       !.state = "IDLE",
                                       !.target_lane = None],
                            hw |-> hw1,
                            hooks |-> hooks,
                            lanes |-> [k \in 1..Len(lns) |->
                                IF lns[k].id = f.target_lane
                                THEN put(lns[k], hooks[jid].load_id, now_sim,
                                         f.hold_seconds)
                                ELSE lns[k]],
                            res |-> <<hooks[jid].load_id, f.target_lane>>]
                      ELSE [same EXCEPT !.fsm = [f EXCEPT
                                           !.ton = TON_update(tn, FALSE, now),
                                           !.state = "IDLE"],
                                        !.hw = hw1]
                 ELSE IF tn.q
                 THEN [same EXCEPT !.fsm = [f EXCEPT
                                      !.ton = TON_update(tn, FALSE, now),
                                      !.state = "IDLE"],
                                   !.hw = hw1]
                 ELSE [same EXCEPT !.fsm = [f EXCEPT !.ton = tn], !.hw = hw1]

SorterFSM_scan(f, hw, hooks, lns, now_sim, now, draw) ==
    LET info   == nearest_hook_info(hooks, LINE1_SORT_POS)
        loaded == info.hid # None
                  /\ \E k \in 1..Len(hooks) :
                        hooks[k].id = info.hid /\ hooks[k].load_id # None
        jid    == (CHOOSE k \in 1..Len(hooks) : hooks[k].id = info.hid)
        same   == [fsm |-> f, hw |-> hw, hooks |-> hooks, lanes |-> lns,
                   res |-> <<>>]
    IN  IF f.state = "IDLE"
        THEN LET lnid == pick_lane(lns, draw)
             IN  IF info.near /\ loaded /\ hw.ready /\ lnid # None
                 THEN [same EXCEPT !.fsm = [f EXCEPT
                                      !.target_lane = lnid,
                                      !.ton = TON_update(@, TRUE, now),
                                      !.state = "TRANSFER"]]
                 ELSE same
        ELSE LET hw1 == SwapperHW_step(hw, TRUE, now)
                 tn  == TON_update(f.ton, TRUE, now)
             IN  IF hw1.complete
                 THEN IF loaded /\ f.target_lane # None
                      THEN [fsm |-> [f EXCEPT
                                       !.ton = TON_update(tn, FALSE, now),
                                       !.state = "IDLE",
                                       !.target_lane = None],
                            hw |-> hw1,
                            hooks |-> set_load(hooks, info.hid, None),
                            lanes |-> [k \in 1..Len(lns) |->
                                IF lns[k].id = f.target_lane
                                THEN put(lns[k], hooks[jid].load_id, now_sim,
                                         f.hold_seconds)
                                ELSE lns[k]],
                            res |-> <<hooks[jid].load_id, f.target_lane>>]
                      ELSE [same EXCEPT !.fsm = [f EXCEPT
                                           !.ton = TON_update(tn, FALSE, now),
                                           !.state = "IDLE"],
                                        !.hw = hw1]
                 ELSE IF tn.q
                 THEN [same EXCEPT !.fsm = [f EXCEPT
                                      !.ton = TON_update(tn, FALSE, now),
                                      !.state = "IDLE"],
                                   !.hw = hw1]
                 ELSE [same EXCEPT !.fsm = [f EXCEPT !.ton = tn], !.hw = hw1]

\* ------------------------------------------------------------------- main
\* The objects main builds, as one value, for the step functions.
Plc ==
    [tnow |-> tnow, sim |-> sim, st_fsm |-> st_fsm, st_hw |-> st_hw,
     depot |-> depot, dp_hw |-> dp_hw, jobs |-> jobs, job_seq |-> job_seq,
     target_job |-> target_job, waiting_to_line1 |-> waiting_to_line1,
     line1_hooks |-> line1_hooks, feeder |-> feeder,
     feeder_hw |-> feeder_hw, sorter |-> sorter, sorter_hw |-> sorter_hw,
     lanes |-> lanes, obs |-> obs]

PlcBecomes(p) ==
    /\ tnow' = p.tnow
    /\ sim' = p.sim
    /\ st_fsm' = p.st_fsm
    /\ st_hw' = p.st_hw
    /\ depot' = p.depot
    /\ dp_hw' = p.dp_hw
    /\ jobs' = p.jobs
    /\ job_seq' = p.job_seq
    /\ target_job' = p.target_job
    /\ waiting_to_line1' = p.waiting_to_line1
    /\ line1_hooks' = p.line1_hooks
    /\ feeder' = p.feeder
    /\ feeder_hw' = p.feeder_hw
    /\ sorter' = p.sorter
    /\ sorter_hw' = p.sorter_hw
    /\ lanes' = p.lanes
    /\ obs' = p.obs

\* What one scan printed ([LOAD], [DEPOT], [FEED], [SORT], [RELEASE]), and
\* two history fields used only to state properties: the job the depot
\* transfer in progress was commanded for, and the jobs whose depot transfer
\* the equipment completed while the DepotFSM was in TRANSFER.
NoEvents ==
    [loaded |-> <<>>, unloaded |-> None, fed |-> <<>>, stored |-> <<>>,
     released |-> <<>>, xfer_job |-> None, completed |-> <<>>]

ConveyorSim_step(sm, dt) ==
    LET hs == move_hooks(sm.hooks, dt, SIM_L)
        near(s) == IF hs # <<>>
                      /\ ring_dist(nearest_hook(hs, s, SIM_L).pos, s, SIM_L)
                            <= SIM_ZONE
                   THEN nearest_hook(hs, s, SIM_L).id ELSE None
    IN  [hooks |-> hs,
         st_present |-> [i \in PlcStations |-> near(station_pos[i]) # None],
         st_hook_id |-> [i \in PlcStations |-> near(station_pos[i])],
         depot_present |-> near(depot_pos) # None,
         depot_hook_id |-> near(depot_pos)]

\* lines 455-473: one station's scan, its unit's step and the job creation
station_step(p, si) ==
    LET i   == StationInputs(p.sim.st_present[si], p.sim.st_hook_id[si],
                             FALSE, FALSE)
        r   == StationFSM_scan(p.st_fsm[si], p.st_hw[si], i, p.tnow)
        hw2 == SwapperHW_step(r.hw, r.fsm.out.cmd, p.tnow)
        p1  == [p EXCEPT !.st_fsm[si] = r.fsm, !.st_hw[si] = hw2]
        hid == p.sim.st_hook_id[si]
        jid == p.job_seq + 1
    IN  IF r.fsm.out.done_pulse /\ hid # None
        THEN [p1 EXCEPT !.job_seq = jid,
                        !.sim.hooks = set_load(@, hid, jid),
                        !.jobs = LifoScheduler_add(@, Job(jid, si, hid, p.tnow)),
                        !.obs.loaded = Append(@, jid)]
        ELSE p1

RECURSIVE station_loop(_, _)
station_loop(p, si) ==
    IF si > NStations THEN p ELSE station_loop(station_step(p, si), si + 1)

\* Variant of the depot part of the scan that counts a lap for the hook at
\* the depot whether or not it is the target's hook.
depot_step_counts_target(p) ==
    LET pk   == pick_next_job(p.jobs)
        tj   == pk.ret
        target_hook == IF tj # NoJob THEN tj.hook_id ELSE None
        di   == DepotInputs(p.sim.depot_present, p.sim.depot_hook_id,
                            target_hook, p.dp_hw.ready, p.dp_hw.complete)
        r    == DepotFSM_scan(p.depot, p.dp_hw, di, p.tnow)
        hw2  == SwapperHW_step(r.hw, r.fsm.out.cmd, p.tnow)
        xj   == IF p.depot.state = "WAIT_TARGET" /\ r.fsm.state = "TRANSFER"
                THEN tj.id ELSE p.obs.xfer_job
        p1   == [p EXCEPT !.jobs = pk.jobs, !.target_job = tj,
                          !.depot = r.fsm, !.dp_hw = hw2,
                          !.obs.xfer_job = xj,
                          !.obs.completed =
                              IF p.depot.state = "TRANSFER"
                                 /\ ~p.dp_hw.complete /\ hw2.complete
                              THEN Append(@, xj) ELSE @]
        p2   == IF hw2.complete /\ tj # NoJob
                   /\ p.sim.depot_hook_id = target_hook
                THEN [p1 EXCEPT
                        !.sim.hooks = set_load(@, target_hook, None),
                        !.jobs = LifoScheduler_remove(@, tj.id),
                        !.waiting_to_line1 = Append(@, tj.id),
                        !.obs.unloaded = tj.id]
                ELSE p1
    IN  IF p.sim.depot_present /\ p.sim.depot_hook_id # None
        THEN [p2 EXCEPT !.jobs = on_hook_passed_depot(@, p.sim.depot_hook_id)]
        ELSE p2

\* lines 474-496: the pick, the depot's scan, the unit's step, the service
\* notification and the lap count
depot_step(p) ==
    LET pk   == pick_next_job(p.jobs)
        tj   == pk.ret
        target_hook == IF tj # NoJob THEN tj.hook_id ELSE None
        di   == DepotInputs(p.sim.depot_present, p.sim.depot_hook_id,
                            target_hook, p.dp_hw.ready, p.dp_hw.complete)
        r    == DepotFSM_scan(p.depot, p.dp_hw, di, p.tnow)
        hw2  == SwapperHW_step(r.hw, r.fsm.out.cmd, p.tnow)
        xj   == IF p.depot.state = "WAIT_TARGET" /\ r.fsm.state = "TRANSFER"
                THEN tj.id ELSE p.obs.xfer_job
        p1   == [p EXCEPT !.jobs = pk.jobs, !.target_job = tj,
                          !.depot = r.fsm, !.dp_hw = hw2,
                          !.obs.xfer_job = xj,
                          !.obs.completed =
                              IF p.depot.state = "TRANSFER"
                                 /\ ~p.dp_hw.complete /\ hw2.complete
                              THEN Append(@, xj) ELSE @]
        p2   == IF hw2.complete /\ tj # NoJob
                   /\ p.sim.depot_hook_id = target_hook
                THEN [p1 EXCEPT
                        !.sim.hooks = set_load(@, target_hook, None),
                        !.jobs = LifoScheduler_remove(@, tj.id),
                        !.waiting_to_line1 = Append(@, tj.id),
                        !.obs.unloaded = tj.id]
                ELSE p1
    IN  IF p.sim.depot_present /\ p.sim.depot_hook_id # None
           /\ (tj = NoJob \/ p.sim.depot_hook_id # target_hook)
        THEN [p2 EXCEPT !.jobs = on_hook_passed_depot(@, p.sim.depot_hook_id)]
        ELSE p2

\* lines 497-503
feeder_step(p) ==
    LET next_job == IF p.waiting_to_line1 # <<>>
                    THEN Head(p.waiting_to_line1) ELSE None
        r  == FeederFSM_scan(p.feeder, p.feeder_hw, next_job, p.line1_hooks,
                             p.tnow)
        p1 == [p EXCEPT !.feeder = r.fsm, !.feeder_hw = r.hw,
                        !.line1_hooks = r.hooks]
    IN  IF r.transferred /\ r.bound # None /\ next_job # None
        THEN [p1 EXCEPT !.waiting_to_line1 = Tail(@),
                        !.obs.fed = <<next_job, r.bound>>]
        ELSE p1

\* sim_clock advances by dt * SIM_SPEEDUP; holds are counted in scans, so the
\* simulated clock is the scan time.
sim_clock(p) == p.tnow

\* lines 504-510
sorter_step(p, draw) ==
    LET r == SorterFSM_scan(p.sorter, p.sorter_hw, p.line1_hooks, p.lanes,
                            sim_clock(p), p.tnow, draw)
    IN  [p EXCEPT !.sorter = r.fsm, !.sorter_hw = r.hw,
                  !.line1_hooks = r.hooks, !.lanes = r.lanes,
                  !.obs.stored = r.res]

\* lines 511-515
lanes_step(p) ==
    [p EXCEPT
       !.lanes = [k \in 1..Len(p.lanes) |->
                     tick_release(p.lanes[k], sim_clock(p)).lane],
       !.obs.released = Concat([k \in 1..Len(p.lanes) |->
                     tick_release(p.lanes[k], sim_clock(p)).rel])]

\* lines 439-515: one pass of the while loop.  keys is the set of stations
\* whose key was pressed, draw the lane random.choice would return.
main_scan(p, keys, draw) ==
    LET p0 == [p EXCEPT !.tnow = @ + scan,
                        !.obs = [NoEvents EXCEPT
                                   !.xfer_job = p.obs.xfer_job,
                                   !.completed = p.obs.completed]]
        p1 == [p0 EXCEPT !.st_fsm = [si \in PlcStations |->
                            IF si \in keys THEN arm(p0.st_fsm[si])
                            ELSE p0.st_fsm[si]]]
        p2 == [p1 EXCEPT !.sim = ConveyorSim_step(@, scan),
                         !.line1_hooks = move_hooks(@, scan, LINE1_L)]
    IN  lanes_step(sorter_step(feeder_step(depot_step(station_loop(p2, 1))),
                               draw))

\* main, lines 410-436: the objects as constructed.  The equipment move
\* times are constructor arguments; stm, dm, fm and sm are those of the
\* station, depot, feeder and sorter units.
main_init(stm, dm, fm, sm) ==
    [tnow |-> 0,
     sim |-> [hooks |-> add_hooks(SIM_HOOKS, SIM_L, HOOK_SPEED),
              st_present |-> [i \in PlcStations |-> FALSE],
              st_hook_id |-> [i \in PlcStations |-> None],
              depot_present |-> FALSE, depot_hook_id |-> None],
     st_fsm |-> [i \in PlcStations |-> StationFSM(StationLoadTime)],
     st_hw |-> [i \in PlcStations |-> SwapperHW(stm)],
     depot |-> DepotFSM(DepotTmax),
     dp_hw |-> SwapperHW(dm),
     jobs |-> <<>>, job_seq |-> 0, target_job |-> NoJob,
     waiting_to_line1 |-> <<>>,
     line1_hooks |-> add_hooks(LINE1_HOOKS, LINE1_L, HOOK_SPEED),
     feeder |-> FeederFSM(FeederGuard), feeder_hw |-> SwapperHW(fm),
     sorter |-> SorterFSM(SorterGuard, HOLD_12H),
     sorter_hw |-> SwapperHW(sm),
     lanes |-> [k \in 1..NLanes |-> BufferLane(k, LaneCapacity)],
     obs |-> NoEvents]

PlcIs(p) ==
    /\ tnow = p.tnow
    /\ sim = p.sim
    /\ st_fsm = p.st_fsm
    /\ st_hw = p.st_hw
    /\ depot = p.depot
    /\ dp_hw = p.dp_hw
    /\ jobs = p.jobs
    /\ job_seq = p.job_seq
    /\ target_job = p.target_job
    /\ waiting_to_line1 = p.waiting_to_line1
    /\ line1_hooks = p.line1_hooks
    /\ feeder = p.feeder
    /\ feeder_hw = p.feeder_hw
    /\ sorter = p.sorter
    /\ sorter_hw = p.sorter_hw
    /\ lanes = p.lanes
    /\ obs = p.obs

\* main as wired in the source (depot, feeder and sorter move times scaled)
PlcInit ==
    PlcIs(main_init(StationMoveTime, DepotMoveTime, FeederMoveTime,
                    SorterMoveTime))

\* Stations whose key may be pressed in this scan (at most MaxJobs loads are
\* requested in a run).
Pending(p) == {si \in PlcStations : p.st_fsm[si].armed}

KeySets(p) ==
    {ks \in SUBSET PlcStations :
        p.job_seq + Cardinality(Pending(p) \cup ks) <= MaxJobs}

LaneDraws(p) ==
    IF free_lanes(p.lanes) = {} THEN {None} ELSE free_lanes(p.lanes)

Scan ==
    /\ UNCHANGED cvars
    /\ tnow < MaxScan
    /\ \E keys \in KeySets(Plc) : \E draw \in LaneDraws(Plc) :
          PlcBecomes(main_scan(Plc, keys, draw))

\* The move times of the units the loop is run with: those of main, a unit
\* that outlasts its FSM's guard timer, and station units that finish within
\* load_time.
UnitTimes ==
    ({StationMoveTime} \X DepotMoveTimes \X FeederMoveTimes
        \X SorterMoveTimes)
    \cup {<<StationLoadTime - 1, DepotMoveTime, FeederMoveTime,
            SorterMoveTime>>}

PlcSpecInit ==
    /\ ConveyorInit
    /\ \E u \in UnitTimes : PlcIs(main_init(u[1], u[2], u[3], u[4]))

PlcSpec == PlcSpecInit /\ [][Scan]_vars

\* -------------------------------------------- LifoScheduler, by its methods
NewJobs ==
    {[Job(job_seq + 1, st, h, c) EXCEPT !.laps = l] :
        st \in PlcStations, h \in 1..SIM_HOOKS, c \in 0..MaxCreated,
        l \in {0}}

SchedAdd ==
    /\ job_seq < MaxSchedJobs
    /\ \E j \in NewJobs : jobs' = LifoScheduler_add(jobs, j)
    /\ job_seq' = job_seq + 1
    /\ UNCHANGED <<cvars, tnow, sim, st_fsm, st_hw, depot, dp_hw, target_job,
                   waiting_to_line1, line1_hooks, feeder, feeder_hw, sorter,
                   sorter_hw, lanes, obs>>

SchedHookPassed ==
    /\ \A i \in 1..Len(jobs) : jobs[i].laps < MaxLaps
    /\ \E h \in 1..SIM_HOOKS : jobs' = on_hook_passed_depot(jobs, h)
    /\ UNCHANGED <<cvars, tnow, sim, st_fsm, st_hw, depot, dp_hw, job_seq,
                   target_job, waiting_to_line1, line1_hooks, feeder,
                   feeder_hw, sorter, sorter_hw, lanes, obs>>

SchedPick ==
    /\ jobs' = pick_next_job(jobs).jobs
    /\ target_job' = pick_next_job(jobs).ret
    /\ UNCHANGED <<cvars, tnow, sim, st_fsm, st_hw, depot, dp_hw, job_seq,
                   waiting_to_line1, line1_hooks, feeder, feeder_hw, sorter,
                   sorter_hw, lanes, obs>>

SchedRemove ==
    /\ \E id \in Ids(jobs) : jobs' = LifoScheduler_remove(jobs, id)
    /\ UNCHANGED <<cvars, tnow, sim, st_fsm, st_hw, depot, dp_hw, job_seq,
                   target_job, waiting_to_line1, line1_hooks, feeder,
                   feeder_hw, sorter, sorter_hw, lanes, obs>>

SchedNext == SchedAdd \/ SchedHookPassed \/ SchedPick \/ SchedRemove

SchedInit == ConveyorInit /\ PlcInit

SchedSpec == SchedInit /\ [][SchedNext]_vars

\* ------------------------------- SorterFSM and its lanes, by their methods
\* The sorter's part of the scan (lines 504-515) on a line whose hooks are
\* loaded at the feed position, with a unit that is also stepped by its
\* owner while the FSM is IDLE.
SorterLoad ==
    /\ UNCHANGED cvars
    /\ job_seq < MaxSorterJobs
    /\ LET a == assign_job_to_free_hook_near(line1_hooks, LINE1_FEED_POS,
                                             job_seq + 1)
       IN  /\ a.hid # None
           /\ PlcBecomes([Plc EXCEPT !.line1_hooks = a.hooks,
                                     !.job_seq = @ + 1])

SorterScan ==
    /\ UNCHANGED cvars
    /\ tnow < MaxScan
    /\ \E draw \in LaneDraws(Plc) :
          PlcBecomes(lanes_step(sorter_step(
              [Plc EXCEPT !.tnow = @ + scan,
                          !.line1_hooks = move_hooks(@, scan, LINE1_L)],
              draw)))

SorterUnitStep ==
    /\ UNCHANGED cvars
    /\ sorter.state = "IDLE"
    /\ ~sorter_hw.ready
    /\ PlcBecomes([Plc EXCEPT !.sorter_hw = SwapperHW_step(@, FALSE, tnow)])

SorterNext == SorterLoad \/ SorterScan \/ SorterUnitStep

SorterInit ==
    /\ ConveyorInit
    /\ \E sm \in SorterMoveTimes : \E hold \in SorterHolds :
          PlcIs([main_init(StationMoveTime, DepotMoveTime, FeederMoveTime, sm)
                    EXCEPT !.sorter = SorterFSM(SorterGuard, hold)])

SorterSpec == SorterInit /\ [][SorterNext]_vars

\* ------------------------------------------------ BufferLane, by its methods
\* What the calls made so far returned: due[id] is the time put was called
\* for job id plus its hold duration, rel_log the ids returned by all
\* tick_release calls, last the latest call (lane, time, returned list).
LaneHistory ==
    [due |-> <<>>, rel_log |-> <<>>,
     last |-> [lane |-> None, now |-> None, rel |-> <<>>]]

LanePut(k) ==
    /\ UNCHANGED cvars
    /\ job_seq < MaxLaneJobs
    /\ can_accept(lanes[k])
    /\ \E hold \in LaneHolds :
          PlcBecomes([Plc EXCEPT
              !.lanes[k] = put(@, job_seq + 1, tnow, hold),
              !.job_seq = @ + 1,
              !.obs.due = Append(@, tnow + hold)])

LaneRelease(k) ==
    /\ UNCHANGED cvars
    /\ LET r == tick_release(lanes[k], tnow)
       IN  PlcBecomes([Plc EXCEPT
               !.lanes[k] = r.lane,
               !.obs.rel_log = @ \o r.rel,
               !.obs.last = [lane |-> k, now |-> tnow, rel |-> r.rel]])

LaneClock ==
    /\ UNCHANGED cvars
    /\ tnow < MaxLaneT
    /\ PlcBecomes([Plc EXCEPT !.tnow = @ + 1])

\* The lanes do not interact: the first one is exercised.
ExercisedLanes == {k \in 1..NLanes : \A n \in 1..NLanes : k <= n}

LanePuts == \E k \in ExercisedLanes : LanePut(k)
LaneReleases == \E k \in ExercisedLanes : LaneRelease(k)

LaneNext == LanePuts \/ LaneReleases \/ LaneClock

LaneInit ==
    /\ ConveyorInit
    /\ PlcIs([main_init(StationMoveTime, DepotMoveTime, FeederMoveTime,
                       SorterMoveTime)
                 EXCEPT !.lanes = [k \in 1..NLanes |->
                                      BufferLane(k, LaneCapacity + 1)],
                        !.obs = LaneHistory])

LaneSpec == LaneInit /\ [][LaneNext]_vars

\* ------------------------------------------------ StationFSM, by its methods
\* A station with its unit: the sensor inputs change freely, arm is called
\* at any time, scan is called with any request_load and reset, and the
\* owner of the unit steps it with the command output (main, line 463).
SensedHooks == {None} \cup 1..(SIM_HOOKS - 1)

\* The stations' FSMs do not interact: the first one is exercised.
Exercised == {si \in PlcStations : \A sj \in PlcStations : si <= sj}

StSense(si) ==
    /\ UNCHANGED cvars
    /\ \E pr \in BOOLEAN : \E hid \in SensedHooks :
          PlcBecomes([Plc EXCEPT !.sim.st_present[si] = pr,
                                 !.sim.st_hook_id[si] = hid])

StArm(si) ==
    /\ UNCHANGED cvars
    /\ PlcBecomes([Plc EXCEPT !.st_fsm[si] = arm(@)])

StInputs(si, rq, rs) ==
    StationInputs(sim.st_present[si], sim.st_hook_id[si], rq, rs)

StScan(si) ==
    /\ UNCHANGED cvars
    /\ \E rq, rs \in BOOLEAN :
          LET r == StationFSM_scan(st_fsm[si], st_hw[si],
                                   StInputs(si, rq, rs), tnow)
          IN  PlcBecomes([Plc EXCEPT !.st_fsm[si] = r.fsm,
                                     !.st_hw[si] = r.hw])

StUnitStep(si) ==
    /\ UNCHANGED cvars
    /\ PlcBecomes([Plc EXCEPT
           !.st_hw[si] = SwapperHW_step(@, st_fsm[si].out.cmd, tnow)])

StClock ==
    /\ UNCHANGED cvars
    /\ tnow < MaxStationT
    /\ PlcBecomes([Plc EXCEPT !.tnow = @ + scan])

StSenses == \E si \in Exercised : StSense(si)
StArms == \E si \in Exercised : StArm(si)
StScans == \E si \in Exercised : StScan(si)
StUnitSteps == \E si \in Exercised : StUnitStep(si)

StationNext == StSenses \/ StArms \/ StScans \/ StUnitSteps \/ StClock

StationInit ==
    /\ ConveyorInit
    /\ \E stm \in StationMoveTimes :
          PlcIs(main_init(stm, DepotMoveTime, FeederMoveTime, SorterMoveTime))

StationSpec == StationInit /\ [][StationNext]_vars

\* -------------------------------------------------- DepotFSM, by its methods
\* A depot with its unit: scan is called with any inputs, and the owner of
\* the unit steps it with the command output (main, line 484).  obs keeps
\* the state the FSM had before the latest scan (before the first scan: the
\* constructed state).
DepotHistory == [prev |-> "IDLE"]

DepotHookIds == {None} \cup 1..SIM_HOOKS

AllDepotInputs ==
    {DepotInputs(pr, hid, tgt, rdy, cpl) :
        pr \in BOOLEAN, hid \in DepotHookIds, tgt \in DepotHookIds,
        rdy \in BOOLEAN, cpl \in BOOLEAN}

DpScan ==
    /\ UNCHANGED cvars
    /\ \E i \in AllDepotInputs :
          LET r == DepotFSM_scan(depot, dp_hw, i, tnow)
          IN  PlcBecomes([Plc EXCEPT
                 !.depot = r.fsm, !.dp_hw = r.hw,
                 !.obs = [prev |-> depot.state]])

DpUnitStep ==
    /\ UNCHANGED cvars
    /\ PlcBecomes([Plc EXCEPT
           !.dp_hw = SwapperHW_step(@, depot.out.cmd, tnow)])

DpClock ==
    /\ UNCHANGED cvars
    /\ tnow < MaxDepotT
    /\ PlcBecomes([Plc EXCEPT !.tnow = @ + scan])

DepotNext == DpScan \/ DpUnitStep \/ DpClock

DepotInit ==
    /\ ConveyorInit
    /\ \E dm \in DepotMoveTimes :
          PlcIs([main_init(StationMoveTime, dm, FeederMoveTime,
                           SorterMoveTime)
                    EXCEPT !.obs = DepotHistory])

DepotSpec == DepotInit /\ [][DepotNext]_vars

\* ------------------------------------------------- SwapperHW, by its method
\* step is called with any command, at the time of the previous call (as
\* the scan loop does after an FSM's scan) or one scan later.
HwStep ==
    /\ UNCHANGED cvars
    /\ \E cmd \in BOOLEAN : \E dt \in StepDts :
          /\ tnow + dt <= MaxScan
          /\ PlcBecomes([Plc EXCEPT
                 !.tnow = @ + dt,
                 !.dp_hw = SwapperHW_step(@, cmd, tnow + dt)])

HwInit ==
    /\ ConveyorInit
    /\ \E dm \in DepotMoveTimes :
          PlcIs(main_init(StationMoveTime, dm, FeederMoveTime,
                          SorterMoveTime))

HwSpec == HwInit /\ [][HwStep]_vars

\* ------------------------------------------------- ConveyorSystem, as a whole
Init ==
    /\ \E v \in Variants : ConveyorInitOf(v)
    /\ PlcInit

Next == Tick \/ ToggleMode \/ SetMode \/ EnterHang \/ PickAndHang

Spec == Init /\ [][Next]_vars

\* ------------------------------------- ConveyorSystem, with hand-off history
\* The same operations, with the belts that the hand-offs made outside HANG
\* were assigned recorded in obs, in hand-off order.
HandoffHistory == [handed |-> <<>>]

\* The belt on which item id lies in state s.
BeltOf(s, id) ==
    CHOOSE b \in Belts : \E i \in 1..Len(s.belts[b]) : s.belts[b][i].id = id

HandoffTick ==
    /\ t < MaxT
    /\ \E S \in SpawnSets(Self) :
          LET s1 == _spawn([Self EXCEPT !.t = @ + 1], S)
              arr == load_loop_arrived(s1)
          IN  \E rnd \in (IF mode = "HANG" THEN [Ids(arr) -> BeltSlots]
                          ELSE {NoDraw}) :
                 LET r == tick(Self, S, rnd)
                 IN  /\ Becomes(r)
                     /\ PlcBecomes([Plc EXCEPT !.obs.handed =
                            IF mode = "HANG" THEN @
                            ELSE @ \o [i \in 1..Len(arr) |->
                                          BeltOf(r, arr[i].id)]])

HandoffNext ==
    HandoffTick \/ ToggleMode \/ SetMode \/ EnterHang \/ PickAndHang

HandoffInit ==
    /\ \E v \in Variants : ConveyorInitOf(v)
    /\ PlcIs([main_init(StationMoveTime, DepotMoveTime, FeederMoveTime,
                        SorterMoveTime)
                 EXCEPT !.obs = HandoffHistory])

HandoffSpec == HandoffInit /\ [][HandoffNext]_vars

\* ------------------------------ ConveyorSystem, for any switch position
\* The same operations with the switch position of the configuration held
\* in obs: the configured one, or the start of the loop, where an item
\* reaches the switch through the modulo wraparound.
SwitchPositions == {0, SW_POS_M}

LoopTick ==
    /\ UNCHANGED pvars
    /\ t < MaxT
    /\ \E S \in SpawnSets(Self) :
          LET s1 == _spawn([Self EXCEPT !.t = @ + 1], S)
              ids == Ids(load_loop_arrived_at(obs.sw, s1))
          IN  \E rnd \in (IF mode = "HANG" THEN [ids -> BeltSlots]
                          ELSE {NoDraw}) :
                 Becomes(tick_at(obs.sw, Self, S, rnd))

LoopNext == LoopTick \/ ToggleMode \/ SetMode \/ EnterHang \/ PickAndHang

LoopInit ==
    /\ ConveyorInit
    /\ \E sw \in SwitchPositions :
          PlcIs([main_init(StationMoveTime, DepotMoveTime, FeederMoveTime,
                           SorterMoveTime)
                    EXCEPT !.obs = [sw |-> sw]])

LoopSpec == LoopInit /\ [][LoopNext]_vars

\* ------------------------------------------- serpentine_order, for any grid
\* serpentine_order is called with a grid of rows x cols belts, and its
\* result is visited entry by entry, as _step_belts and the hand-off do with
\* SERP_ORDER.  obs holds the arguments, the result and the visit's cursor.
MaxRows == 7
MaxCols == 6

\* The hard-coded tables for the 7x6 grid.
SERPENTINE_ORDER ==
    <<  1,  2,  3,  4,  5,  6,
       12, 11, 10,  9,  8,  7,
       13, 14, 15, 16, 17, 18,
       24, 23, 22, 21, 20, 19,
       25, 26, 27, 28, 29, 30,
       36, 35, 34, 33, 32, 31,
       37, 38, 39, 40, 41, 42 >>

SERPENTINE_ORDER_test ==
    <<  1,  2,  3,  4,  5,  6,
       12, 11, 10,  9,  8,  7,
       13, 14, 15, 16, 17, 18,
       24, 23, 22, 21, 20, 19,
       25, 26, 27, 28, 29, 30,
       36, 35, 34, 33, 32, 31,
       37, 38, 39, 40, 41, 42 >>

SerpArgs(rows, cols) ==
    [rows |-> rows, cols |-> cols, called |-> FALSE, order |-> <<>>, k |-> 0]

\* order = serpentine_order(rows, cols)
SerpCall ==
    /\ UNCHANGED cvars
    /\ ~obs.called
    /\ PlcBecomes([Plc EXCEPT !.obs =
           [@ EXCEPT !.called = TRUE,
                     !.order = serpentine_order(obs.rows, obs.cols),
                     !.k = 1]])

\* for idx in SERP_ORDER: the next entry
SerpVisit ==
    /\ UNCHANGED cvars
    /\ obs.called
    /\ obs.k < Len(obs.order)
    /\ PlcBecomes([Plc EXCEPT !.obs = [@ EXCEPT !.k = @ + 1]])

SerpNext == SerpCall \/ SerpVisit

SerpInit ==
    /\ ConveyorInit
    /\ \E rows \in 1..MaxRows : \E cols \in 1..MaxCols :
          PlcIs([main_init(StationMoveTime, DepotMoveTime, FeederMoveTime,
                           SorterMoveTime)
                    EXCEPT !.obs = SerpArgs(rows, cols)])

SerpSpec == SerpInit /\ [][SerpNext]_vars

\* ------------------------------- ConveyorSystem with a callback that raises
\* The operations of ConveyorSystem with an on_unloaded callback that raises
\* for any of the items finishing in a tick.  obs tells whether the last
\* tick ended with an exception, for which finishing items the callback
\* raised and how many items finished.
CallbackHistory == [exc |-> FALSE, raised |-> {}, finished |-> 0]

\* The ids of the items that reach the end of an unload line in the tick
\* that enters _step_unloads in state s.
Finishing(s) ==
    {s.unl1[i].id : i \in {j \in 1..Len(s.unl1) :
        s.unl1[j].pos + Travel(_speed_for(s, "U1")) >= UNL_LEN_M}}
    \cup
    {s.unl2[i].id : i \in {j \in 1..Len(s.unl2) :
        s.unl2[j].pos + Travel(_speed_for(s, "U2")) >= UNL_LEN_M}}

RaisingTick ==
    /\ t < MaxT
    /\ ~obs.exc
    /\ \E S \in SpawnSets(Self) :
          LET s1 == _spawn([Self EXCEPT !.t = @ + 1], S)
              ids == Ids(load_loop_arrived(s1))
          IN  \E rnd \in (IF mode = "HANG" THEN [ids -> BeltSlots]
                          ELSE {NoDraw}) :
              LET fin == Finishing(before_unloads(Self, S, rnd))
              IN  \E raises \in SUBSET fin :
                    LET r == tick_raising(Self, S, rnd, raises)
                    IN  /\ Becomes(r.s)
                        /\ PlcBecomes([Plc EXCEPT !.obs =
                               [exc |-> r.exc, raised |-> raises,
                                finished |-> Cardinality(fin)]])

CallbackNext ==
    RaisingTick \/ ToggleMode \/ SetMode \/ EnterHang \/ PickAndHang

CallbackInit ==
    /\ ConveyorInit
    /\ PlcIs([main_init(StationMoveTime, DepotMoveTime, FeederMoveTime,
                        SorterMoveTime)
                 EXCEPT !.obs = CallbackHistory])

CallbackSpec == CallbackInit /\ [][CallbackNext]_vars

\* -------------------------------------- ConveyorSystem, unload lines taken
\* The operations of ConveyorSystem; obs.sent lists, for the items that have
\* left line2, the unload line (1 or 2) each was appended to, in the order
\* in which _step_line2 handled them.
UnloadHistory == [sent |-> <<>>]

\* The state in which tick(s) enters _step_line2.
before_line2(s, S, rnd) ==
    _step_belts(_step_load_loop(_spawn([s EXCEPT !.t = @ + 1], S), rnd))

\* The items that reach the end of line2 in _step_line2(s), in list order.
line2_arrived(s) ==
    SelectSeq(line_moved(s.line2, _speed_for(s, "L2")),
              LAMBDA m : m.pos >= LINE2_LEN_M)

UnloadTick ==
    /\ t < MaxT
    /\ \E S \in SpawnSets(Self) :
          LET s1 == _spawn([Self EXCEPT !.t = @ + 1], S)
              ids == Ids(load_loop_arrived(s1))
          IN  \E rnd \in (IF mode = "HANG" THEN [ids -> BeltSlots]
                          ELSE {NoDraw}) :
              LET pre == before_line2(Self, S, rnd)
                  arr == line2_arrived(pre)
                  post == _step_line2(pre)
              IN  /\ Becomes(tick(Self, S, rnd))
                  /\ PlcBecomes([Plc EXCEPT !.obs.sent =
                         @ \o [i \in 1..Len(arr) |->
                                 IF arr[i].id \in Ids(post.unl1) THEN 1
                                 ELSE 2]])

UnloadNext ==
    UnloadTick \/ ToggleMode \/ SetMode \/ EnterHang \/ PickAndHang

UnloadInit ==
    /\ \E v \in Variants : ConveyorInitOf(v)
    /\ PlcIs([main_init(StationMoveTime, DepotMoveTime, FeederMoveTime,
                        SorterMoveTime)
                 EXCEPT !.obs = UnloadHistory])

UnloadSpec == UnloadInit /\ [][UnloadNext]_vars

\* ------------------------------------------------- System (src/data.py)
\* The first version of the simulation, class System of data.py.  Its tick
\* is the pipeline of conveyor_core.py (the items that cross the switch pass
\* through swap_q, which dispatch_to_belts empties in the same tick), its
\* modes are COLLECT and DRAIN, and its step_belts keeps the gap
\* BELT_LEN_M / (CELLS_BELT - 2) behind the item ahead.
\*
\* The belts are few here, so one station feeds the loop: as in the program,
\* fewer items cross the switch in one tick than there are belts, and a belt
\* receives its next item only after the previous one has moved a gap away.
CELLS_BELT == 5
MaxFrames == 9
MaxSpawned == 9
FeedingStations == {st \in Stations : \A other \in Stations : st <= other}

System_GAP == BELT_LEN_M \div Max(1, CELLS_BELT - 2)

\* One belt of step_belts: sort by position, move the leader, and move each
\* follower to at most GAP behind the item ahead.
System_convoy(seg0, sp, allow_exit) ==
    LET seg == sorted(seg0, LAMBDA m : 0 - m.pos)
        d == Travel(sp)
        F[i \in 1..Len(seg)] ==
            IF i = 1
            THEN [seg[1] EXCEPT !.pos =
                    IF allow_exit THEN @ + d ELSE Min(@ + d, BELT_LEN_M)]
            ELSE LET gapped == F[i - 1].pos - System_GAP
                     max_pos == IF allow_exit THEN gapped
                                ELSE Min(gapped, BELT_LEN_M)
                 IN  [seg[i] EXCEPT !.pos = Min(@ + d, max_pos)]
    IN  [i \in 1..Len(seg) |-> F[i]]

System_step_one_belt(s, idx) ==
    IF s.belts[idx] = <<>> THEN s
    ELSE LET allow_exit == (s.mode = "DRAIN")
             seg == System_convoy(s.belts[idx], _speed_for(s, "B"),
                                  allow_exit)
         IN  IF allow_exit
             THEN to_line2(
                    [s EXCEPT !.belts[idx] =
                        SelectSeq(seg, LAMBDA m : m.pos < BELT_LEN_M)],
                    SelectSeq(seg, LAMBDA m : m.pos >= BELT_LEN_M))
             ELSE [s EXCEPT !.belts[idx] = seg]

RECURSIVE System_belts_from(_, _)
System_belts_from(s, k) ==
    IF k > Len(SERP_ORDER) THEN s
    ELSE System_belts_from(System_step_one_belt(s, SERP_ORDER[k]), k + 1)

System_step_belts(s) == System_belts_from(s, 1)

\* tick: spawn, step_load_loop and dispatch_to_belts, step_belts, step_line2,
\* step_unloads.
System_tick(s, S) ==
    _step_unloads(_step_line2(System_step_belts(
        _step_load_loop(_spawn([s EXCEPT !.t = @ + 1], S), NoDraw))))

System_toggle_mode(s) ==
    [s EXCEPT !.mode = IF s.mode = "COLLECT" THEN "DRAIN" ELSE "COLLECT"]

SystemTick ==
    /\ UNCHANGED pvars
    /\ t < MaxFrames
    /\ \E S \in SUBSET FeedingStations :
          /\ Created(Self) + Cardinality(S) <= MaxSpawned
          /\ Becomes(System_tick(Self, S))

SystemToggleMode ==
    /\ UNCHANGED pvars
    /\ Becomes(System_toggle_mode(Self))

SystemInit ==
    /\ ConveyorInitOf("data")
    /\ PlcInit

SystemNext == SystemTick \/ SystemToggleMode

SystemSpec == SystemInit /\ [][SystemNext]_vars

\* ------------------------------------------------------ ConveyorSystem claims
OnBelts == Concat([b \in Belts |-> belts[b]])
InSystem ==
    Len(load_loop) + Len(line1) + Len(OnBelts) + Len(line2) + Len(unl1)
    + Len(unl2)
IsTick == t' = t + 1

\* C1: the number of items created (next_id - 1) equals the number of items
\* on load_loop, line1, the belts, line2, unl1 and unl2 plus len(done_log),
\* after any sequence of tick and mode operations.
C1_Conservation == next_id - 1 = InSystem + Len(done_log)

C1_Witness ==
    /\ Len(done_log) >= 1
    /\ InSystem >= 1
    /\ hanged_ids # {}

\* Adjacent items of one belt, leader first, keep the belt gap.
GapsKeptOn(seg) ==
    LET q == sorted(seg, LAMBDA m : 0 - m.pos)
    IN  \A i \in 1..(Len(q) - 1) : q[i + 1].pos <= q[i].pos - _belt_gap
GapsKept == \A b \in Belts : GapsKeptOn(belts[b])

\* C2: after every tick in which gap enforcement is active, adjacent items
\* of every belt satisfy follower.pos <= leader.pos - _belt_gap.
C2_NoOverlap == [][(IsTick /\ ~ignore_gaps') => GapsKept']_vars

DrainAtRest ==
    /\ mode = "DRAIN"
    /\ OnBelts = <<>>
    /\ line2 = <<>>
    /\ unl1 = <<>>
    /\ unl2 = <<>>
SystemEmpty ==
    /\ InSystem = 0
    /\ Range(done_log) = 1..(next_id - 1)

\* C8: a drain that has come to rest (nothing left on the belts, line2 and
\* the unload lines, which are all that DRAIN moves) has emptied the system:
\* no item on load_loop or line1 and every created item in done_log.
C8_DrainToEmpty == DrainAtRest => SystemEmpty

IntakeAndBelts == Len(load_loop) + Len(OnBelts)

\* C9: while the mode is DRAIN, the number of items on the intake loop and
\* the belts does not increase from one tick to the next.
C9_DrainMonotone ==
    [][(IsTick /\ mode = "DRAIN" /\ mode' = "DRAIN")
          => IntakeAndBelts' <= IntakeAndBelts]_vars

\* The longest remaining path to the final exit over all items, from the
\* lengths of the segments ahead of each item (an intake or line1 item is
\* counted from the start of a belt).
RemainingOnLoad == {BELT_LEN_M + LINE2_LEN_M + UNL_LEN_M : m \in Range(load_loop) \cup Range(line1)}
RemainingOnBelts == {(BELT_LEN_M - m.pos) + LINE2_LEN_M + UNL_LEN_M : m \in Range(OnBelts)}
RemainingOnLine2 == {(LINE2_LEN_M - m.pos) + UNL_LEN_M : m \in Range(line2)}
RemainingOnUnloads == {UNL_LEN_M - m.pos : m \in Range(unl1) \cup Range(unl2)}
MaxRemaining ==
    SetMax(RemainingOnLoad \cup RemainingOnBelts \cup RemainingOnLine2
           \cup RemainingOnUnloads \cup {0})

\* speed >= 1.2 * R / DRAIN_WINDOW_S, both sides times SpeedDen.
DrainSpeedsBounded ==
    /\ SafetyDen * drain_speed_belts >= SafetyNum * MaxRemaining * SafetyDen
    /\ SafetyDen * drain_speed_line2 >= SafetyNum * MaxRemaining * SafetyDen
    /\ drain_speed_belts >= SPEED_DRAIN
    /\ drain_speed_line2 >= SPEED_LINE2_DRAIN

\* C10: immediately after toggle_mode enters DRAIN, both drain speeds are at
\* least 1.2 * R / DRAIN_WINDOW_S and at least their floor speeds.
C10_DrainSpeedBound ==
    [][(variant = "system" /\ mode # "DRAIN" /\ Becomes(toggle_mode(Self)))
          => DrainSpeedsBounded']_vars

C10_Witness ==
    /\ mode = "DRAIN"
    /\ line2 # <<>>
    /\ drain_speed_belts > SPEED_DRAIN
    /\ drain_speed_line2 > SPEED_LINE2_DRAIN
    /\ drain_speed_line2 = SafetyNum * MaxRemaining

\* The state k ticks after s when no station spawns (draws are only used in
\* HANG).
RECURSIVE ticks_from(_, _)
ticks_from(s, k) ==
    IF k = 0 THEN s ELSE ticks_from(tick(s, {}, NoDraw), k - 1)

\* The items toggle_mode collects (line1, the belts, the hanged intake items).
Collected == lifo_list(Self)

\* C11: after toggle_mode has moved the collected items onto line2, of two
\* collected items the one with the larger entered_area_at before the
\* transition leaves line2 no later than the other: at no number of ticks
\* after the transition has the older one left line2 while the newer one is
\* still on it.
C11_LifoDrainOrder ==
    (variant = "system" /\ mode # "DRAIN") =>
        \A k \in 1..DrainHorizon :
            LET after == Ids(ticks_from(toggle_mode(Self), k).line2)
            IN  \A i, j \in 1..Len(Collected) :
                    (/\ Collected[i].entered_area_at
                            > Collected[j].entered_area_at
                     /\ Collected[j].id \notin after)
                    => Collected[i].id \notin after

\* ------------------------------------------------------- LifoScheduler claims
HasAged(js) == \E i \in 1..Len(js) : js[i].laps >= max_laps_for_old

\* C3: pick_next_job never returns a job with laps < max_laps_for_old while
\* the waiting set holds a job with laps >= max_laps_for_old, whatever the
\* creation times of the fresh jobs.
C3_AgingFairness ==
    [][(SchedPick /\ HasAged(jobs))
          => target_job'.laps >= max_laps_for_old]_vars

\* An aged job was picked although a newer and an older fresh job wait.
C3_Witness ==
    /\ target_job = pick_next_job(jobs).ret
    /\ target_job # NoJob
    /\ target_job.laps >= max_laps_for_old
    /\ \E i, k \in 1..Len(jobs) :
          /\ jobs[i].laps < max_laps_for_old
          /\ jobs[k].laps < max_laps_for_old
          /\ jobs[i].created_at > target_job.created_at
          /\ jobs[k].created_at < target_job.created_at

PickPost(js, r, js2) ==
    /\ js2 = js
    /\ js = <<>> => r = NoJob
    /\ js # <<>> =>
          /\ r \in Range(js)
          /\ HasAged(js) =>
                /\ r.laps >= max_laps_for_old
                /\ \A i \in 1..Len(js) :
                      js[i].laps >= max_laps_for_old
                         => r.created_at <= js[i].created_at
          /\ ~HasAged(js) =>
                \A i \in 1..Len(js) : r.created_at >= js[i].created_at

\* C4: pick_next_job returns none for an empty waiting set; with an aged job
\* waiting it returns an aged job of minimal created_at among the aged;
\* otherwise a job of maximal created_at among all; the returned job is a
\* member of the waiting set, and the call leaves the waiting set as it was.
C4_SchedulerOrder == [][SchedPick => PickPost(jobs, target_job', jobs')]_vars

\* The newest job was picked from a list of fresh jobs that is not in
\* creation order.
C4_Witness ==
    /\ target_job = pick_next_job(jobs).ret
    /\ target_job # NoJob
    /\ ~HasAged(jobs)
    /\ Len(jobs) >= 3
    /\ jobs[1].created_at < jobs[2].created_at
    /\ jobs[3].created_at < jobs[2].created_at
    /\ target_job = jobs[2]

\* ------------------------------------------------------- scan loop claims
Completions(id) ==
    Cardinality({k \in 1..Len(obs.completed) : obs.completed[k] = id})

\* C5: a waiting job that has reached the aging threshold is removed from
\* the scheduler's waiting set while its hook circulates past the depot and
\* the depot equipment completes the transfers commanded for it: no aged job
\* is still waiting after the equipment has completed two such transfers.
C5_NoStarvation ==
    \A i \in 1..Len(jobs) :
        jobs[i].laps >= max_laps_for_old => Completions(jobs[i].id) < 2

DepotCompleted == Len(obs'.completed) > Len(obs.completed)
CompletedJob == obs'.completed[Len(obs'.completed)]

\* C6: a depot transfer started for the hook of waiting job j that ends by
\* equipment completion removes j from the scheduler's waiting set and
\* appends it to waiting_to_line1, in the scan of the completion.
C6_DepotServiceNotified ==
    [][(DepotCompleted /\ CompletedJob \in Ids(jobs))
          => /\ CompletedJob \notin Ids(jobs')
             /\ obs'.unloaded = CompletedJob]_vars

\* The guard timer of an FSM expired in this scan and its equipment unit has
\* not completed: the FSM left its transfer state with the unit incomplete.
StationTimedOut(i) ==
    /\ st_fsm[i].state = "LOADING"
    /\ st_fsm'[i].state # "LOADING"
    /\ ~st_hw'[i].complete
DepotTimedOut ==
    /\ depot.state = "TRANSFER"
    /\ depot'.state # "TRANSFER"
    /\ ~dp_hw.complete
    /\ ~dp_hw'.complete
FeederTimedOut ==
    /\ feeder.state = "TRANSFER"
    /\ feeder'.state # "TRANSFER"
    /\ ~feeder_hw'.complete
SorterTimedOut ==
    /\ sorter.state = "TRANSFER"
    /\ sorter'.state # "TRANSFER"
    /\ ~sorter_hw'.complete

DepotAbandons ==
    DepotTimedOut =>
        /\ ~depot'.out.cmd
        /\ depot'.state = "IDLE"
        /\ obs'.unloaded = None
FeederAbandons ==
    FeederTimedOut =>
        /\ feeder'.state = "IDLE"
        /\ obs'.fed = <<>>
        /\ \A k \in 1..Len(line1_hooks') :
              line1_hooks'[k].load_id # feeder.current_job
SorterAbandons ==
    SorterTimedOut =>
        /\ sorter'.state = "IDLE"
        /\ obs'.stored = <<>>
        /\ \A k \in 1..Len(lanes') :
              Range(lanes'[k].slots) \subseteq Range(lanes[k].slots)
StationAbandons(i) ==
    StationTimedOut(i) =>
        /\ ~st_fsm'[i].out.cmd
        /\ st_fsm'[i].state = "IDLE"
        /\ ~st_fsm'[i].out.done_pulse
        /\ \A k \in 1..Len(jobs') :
              jobs'[k].station = i => jobs'[k].created_at # tnow'
StationReportsDone(i) ==
    StationTimedOut(i) =>
        /\ ~st_fsm'[i].out.cmd
        /\ st_fsm'[i].state = "DONE"
        /\ st_fsm'[i].out.done_pulse
        /\ ~st_fsm'[i].armed
        /\ sim'.st_hook_id[i] # None => obs'.loaded # <<>>

C12_BufferCapacity ==
    \A k \in 1..Len(lanes) : Len(lanes[k].slots) <= lanes[k].capacity

\* Every lane is full, the sorter is idle with its unit ready and a loaded
\* hook is at the sorter: the transfer is refused for want of a lane.
C12_Witness ==
    /\ \A k \in 1..Len(lanes) : ~can_accept(lanes[k])
    /\ sorter.state = "IDLE"
    /\ sorter_hw.ready
    /\ nearest_hook_info(line1_hooks, LINE1_SORT_POS).near
    /\ \E h \in 1..Len(line1_hooks) :
          /\ line1_hooks[h].id
                = nearest_hook_info(line1_hooks, LINE1_SORT_POS).hid
          /\ line1_hooks[h].load_id # None

\* C13: a second tick_release(t) made immediately after tick_release(t)
\* returns the empty list and leaves the lane unchanged, for any lane contents
\* and time t; over any sequence of calls no job id is returned twice.
C13_ReleaseIdempotent ==
    /\ \A k \in 1..Len(lanes) : \A now \in 0..MaxLaneT :
          LET r1 == tick_release(lanes[k], now)
              r2 == tick_release(r1.lane, now)
          IN  r2.rel = <<>> /\ r2.lane = r1.lane
    /\ \A i, j \in 1..Len(obs.rel_log) :
          i # j => obs.rel_log[i] # obs.rel_log[j]

\* tick_release has returned two jobs, and a job is still stored.
C13_Witness ==
    /\ Len(obs.rel_log) >= 2
    /\ \E k \in 1..Len(lanes) : lanes[k].slots # <<>>

\* C14: tick_release(now) returns exactly the stored jobs whose put time plus
\* hold duration is <= now, in slot order, and keeps exactly the others: no
\* job is released before its put time plus hold duration and every job is
\* released by the first call made at or after that time.
C14_ReleaseTiming ==
    [][\A k \in ExercisedLanes : LaneRelease(k) =>
          /\ obs'.last.rel
                = SelectSeq(lanes[k].slots, LAMBDA id : obs.due[id] <= tnow)
          /\ lanes'[k].slots
                = SelectSeq(lanes[k].slots, LAMBDA id : obs.due[id] > tnow)]_vars

\* The latest call returned a job that had been held for a while and kept
\* another one in the same lane.
C14_Witness ==
    /\ obs.last.rel # <<>>
    /\ \E id \in Range(obs.last.rel) : obs.due[id] = obs.last.now /\ id > 1
    /\ lanes[obs.last.lane].slots # <<>>

\* --------------------------------------------------------- SwapperHW claims
\* C15: once the duration timer completes in a step (busy -> complete),
\* complete is still true after exactly one further step and, after the step
\* following that, complete is false and ready is true, whatever command is
\* presented in those steps.
C15_CompletePulse ==
    \A c0, c1, c2 \in BOOLEAN : \A d0, d1, d2 \in StepDts :
        LET h1 == SwapperHW_step(dp_hw, c0, tnow + d0)
            h2 == SwapperHW_step(h1, c1, tnow + d0 + d1)
            h3 == SwapperHW_step(h2, c2, tnow + d0 + d1 + d2)
        IN  (~dp_hw.complete /\ h1.complete)
            => (h2.complete /\ ~h3.complete /\ h3.ready)

\* The unit has completed and has been stepped once since: complete is still
\* set and the latch is used up.
C15_Witness ==
    /\ dp_hw.complete
    /\ dp_hw.latched_complete = 0
    /\ ~dp_hw.ready

Exclusive(hw) ==
    /\ ~(hw.ready /\ hw.busy)
    /\ ~(hw.ready /\ hw.complete)
    /\ ~(hw.busy /\ hw.complete)

\* C16: the unit enters busy only from ready with the command true; a
\* command presented while it is busy or in its complete latch neither starts
\* a new cycle nor restarts the duration timer; ready, busy and complete are
\* pairwise exclusive in every reachable state.
C16_SingleCycle ==
    /\ Exclusive(dp_hw)
    /\ \A cmd \in BOOLEAN : \A dt \in StepDts :
          LET h1 == SwapperHW_step(dp_hw, cmd, tnow + dt)
          IN  /\ (h1.busy /\ ~dp_hw.busy) => (dp_hw.ready /\ cmd)
              /\ (h1.ton.start # None /\ dp_hw.ton.start = None)
                    => (dp_hw.ready /\ cmd)
              /\ dp_hw.busy =>
                    \/ h1.busy /\ h1.ton.start = dp_hw.ton.start
                    \/ h1.complete /\ ~h1.busy /\ h1.ton.start = None
              /\ dp_hw.complete => (~h1.busy /\ h1.ton.start = None)

\* The unit is in the middle of a cycle, stepped several times while busy.
C16_Witness ==
    /\ dp_hw.busy
    /\ dp_hw.ton.et >= 1
    /\ dp_hw.ton.et < dp_hw.ton.pt

\* ----------------------------------------------------- completion detection
\* C17: in the scan loop, where a Station or Depot unit is stepped inside its
\* FSM's scan and once more by the loop, every completion of the unit that
\* happens while the FSM is in LOADING / TRANSFER is detected by the FSM no
\* later than the next scan: a station whose unit completes in a scan takes
\* LOADING -> DONE in that scan; a depot that ends a scan in TRANSFER with
\* complete set leaves TRANSFER in the next scan; and no scan ends with the
\* FSM still waiting for a unit that is neither busy nor showing complete.
C17_CompletionDetected ==
    [][/\ (depot.state = "TRANSFER" /\ dp_hw.complete)
            => (depot'.state = "IDLE" /\ ~depot'.out.cmd)
       /\ depot'.state = "TRANSFER" => (dp_hw'.busy \/ dp_hw'.complete)
       /\ \A i \in PlcStations :
            /\ (st_fsm[i].state = "LOADING" /\ ~st_hw[i].complete
                    /\ st_hw'[i].complete)
                 => (st_fsm'[i].state = "DONE" /\ st_fsm'[i].out.done_pulse)
            /\ st_fsm'[i].state = "LOADING" => st_hw'[i].busy]_vars

\* The depot has left TRANSFER on a completion of its unit, and a station
\* emits its done pulse on the completion of a unit that is faster than the
\* station's load_time timer.
C17_Witness ==
    /\ obs.completed # <<>>
    /\ depot.state # "TRANSFER"
    /\ \E i \in PlcStations :
          /\ st_fsm[i].out.done_pulse
          /\ st_hw[i].complete
          /\ st_hw[i].ton.pt < st_fsm[i].ton.pt

\* -------------------------------------------------------- StationFSM claims
\* The FSM of station si after a scan with inputs request_load = rq and
\* reset = rs, from the present state.
Scanned(si, rq, rs) ==
    StationFSM_scan(st_fsm[si], st_hw[si], StInputs(si, rq, rs), tnow).fsm

\* The scan enters LOADING (it does not merely stay in it).
Starts(si, rq, rs) ==
    /\ Scanned(si, rq, rs).state = "LOADING"
    /\ (st_fsm[si].state # "LOADING" \/ rs)

\* C18: StationFSM asserts its command (cmd true, state LOADING) in a scan
\* only if in that scan it is IDLE (from the start or by the reset input), a
\* load request is armed (by arm() before the scan or by request_load in
\* it), a hook is present with a non-null hook id and the unit is ready; in
\* every state other than LOADING the command output after the scan is
\* false.
C18_StartGuard ==
    \A si \in Exercised :
        /\ st_fsm[si].state # "LOADING" => ~st_fsm[si].out.cmd
        /\ \A rq, rs \in BOOLEAN :
              /\ Starts(si, rq, rs) =>
                    /\ Scanned(si, rq, rs).out.cmd
                    /\ (st_fsm[si].state = "IDLE" \/ rs)
                    /\ ((st_fsm[si].armed /\ ~rs) \/ rq)
                    /\ sim.st_present[si]
                    /\ sim.st_hook_id[si] # None
                    /\ st_hw[si].ready
              /\ Scanned(si, rq, rs).state # "LOADING"
                    => ~Scanned(si, rq, rs).out.cmd

\* A station has just asserted its command: the unit has not moved yet.
C18_Witness ==
    \E si \in Exercised :
        /\ st_fsm[si].state = "LOADING"
        /\ st_fsm[si].out.cmd
        /\ st_hw[si].ready
        /\ sim.st_present[si]
        /\ sim.st_hook_id[si] # None

\* C19: done_pulse is true after a scan exactly when that scan took the
\* LOADING -> DONE transition; it is false after the next scan; at the
\* transition cmd is false and the request, armed until then, is disarmed, so
\* each armed request yields at most one done pulse.
C19_DonePulse ==
    \A si \in Exercised :
        /\ st_fsm[si].out.done_pulse => st_fsm[si].state = "DONE"
        /\ \A rq, rs \in BOOLEAN :
              LET f == st_fsm[si]
                  r == Scanned(si, rq, rs)
              IN  /\ r.out.done_pulse
                        <=> (f.state = "LOADING" /\ r.state = "DONE")
                  /\ r.out.done_pulse
                        => (~r.out.cmd /\ f.armed /\ ~r.armed)
                  /\ f.out.done_pulse => ~r.out.done_pulse

\* A station shows its done pulse while its unit is still moving (the pulse
\* came from the load_time timer), with a new request already armed.
C19_Witness ==
    \E si \in Exercised :
        /\ st_fsm[si].out.done_pulse
        /\ st_fsm[si].state = "DONE"
        /\ st_fsm[si].armed
        /\ st_hw[si].busy

DepotScanned(i) == DepotFSM_scan(depot, dp_hw, i, tnow).fsm

\* C21: DepotFSM leaves IDLE for WAIT_TARGET only when the supplied target
\* hook id is non-null, and enters TRANSFER (cmd true) only in a scan in
\* which a hook is present, its id equals the current target hook id, and
\* the equipment is reported ready; if the target becomes null in
\* WAIT_TARGET it returns to IDLE without commanding.
C21_DepotGuards ==
    /\ depot.state # "TRANSFER" => ~depot.out.cmd
    /\ \A i \in AllDepotInputs :
          LET r == DepotScanned(i)
          IN  /\ depot.state = "IDLE" =>
                    /\ r.state \in {"IDLE", "WAIT_TARGET"}
                    /\ r.state = "WAIT_TARGET" <=> i.target_hook_id # None
                    /\ ~r.out.cmd
              /\ (r.state = "TRANSFER" /\ depot.state # "TRANSFER") =>
                    /\ depot.state = "WAIT_TARGET"
                    /\ r.out.cmd
                    /\ i.hook_present
                    /\ i.target_hook_id # None
                    /\ i.hook_id = i.target_hook_id
                    /\ i.hw_ready
              /\ (depot.state = "WAIT_TARGET" /\ i.target_hook_id = None) =>
                    /\ r.state = "IDLE"
                    /\ ~r.out.cmd
              /\ r.state # "TRANSFER" => ~r.out.cmd

\* The depot has just entered TRANSFER from WAIT_TARGET: the command is
\* asserted and the unit has not moved yet.
C21_Witness ==
    /\ obs.prev = "WAIT_TARGET"
    /\ depot.state = "TRANSFER"
    /\ depot.out.cmd
    /\ depot.out.active_target # None
    /\ dp_hw.ready

\* ------------------------------------------------------------ lap counting
\* The lap count job id had before the scan (a job created in the scan
\* starts at 0).
LapsBefore(id) ==
    IF id \in Ids(jobs)
    THEN jobs[CHOOSE k \in 1..Len(jobs) : jobs[k].id = id].laps
    ELSE 0

\* The hook at the depot in the scan is not the hook of the scan's target.
NotTargetHook ==
    target_job' = NoJob \/ sim'.depot_hook_id # target_job'.hook_id

\* C22: in a scan of main where a hook is present at the depot, the lap
\* count of every waiting job bound to that hook is incremented if the hook
\* is not the current target's hook, and no job's lap count changes if the
\* present hook is the current target's hook; lap counts of jobs bound to
\* other hooks are unchanged.
C22_LapExcludesServiced ==
    [][sim'.depot_present =>
          \A k \in 1..Len(jobs') :
              jobs'[k].laps =
                  IF NotTargetHook /\ jobs'[k].hook_id = sim'.depot_hook_id
                  THEN LapsBefore(jobs'[k].id) + 1
                  ELSE LapsBefore(jobs'[k].id)]_vars

\* A hook that is not the target's hook is at the depot and a waiting job
\* bound to it has been counted, while the target has not.
C22_Witness ==
    /\ sim.depot_present
    /\ target_job # NoJob
    /\ sim.depot_hook_id # target_job.hook_id
    /\ \E k \in 1..Len(jobs) :
          jobs[k].hook_id = sim.depot_hook_id /\ jobs[k].laps >= 1
    /\ \E k \in 1..Len(jobs) :
          jobs[k].id = target_job.id /\ jobs[k].laps = 0

\* The lap count of job id in the job list js (0 for a job not in it).
LapsIn(js, id) ==
    IF id \in Ids(js)
    THEN js[CHOOSE k \in 1..Len(js) : js[k].id = id].laps
    ELSE 0

\* Hook h is in the depot zone in the scans that end in p1 and in p2: two
\* successive scans of one passage.
SamePassage(p1, p2, h) ==
    /\ p1.sim.depot_present /\ p1.sim.depot_hook_id = h
    /\ p2.sim.depot_present /\ p2.sim.depot_hook_id = h

\* C23: the lap counter of a waiting job increases by exactly one per passage
\* of its hook through the depot zone, not once per scan spent inside the
\* zone: over two successive scans of one passage the counter of a job
\* bound to the hook grows by at most one.
C23_LapCountsPassages ==
    \A d1 \in LaneDraws(Plc) :
        LET p1 == main_scan(Plc, {}, d1)
        IN  \A d2 \in LaneDraws(p1) :
                LET p2 == main_scan(p1, {}, d2)
                IN  \A k \in 1..Len(p2.jobs) :
                        SamePassage(p1, p2, p2.jobs[k].hook_id)
                        => p2.jobs[k].laps
                              <= LapsIn(jobs, p2.jobs[k].id) + 1

\* ---------------------------------------------------------- mode claims
\* The items of a line with their positions, in list order.
Placed(seg) == [i \in 1..Len(seg) |-> <<seg[i].id, seg[i].pos>>]

\* C24: while the mode of ConveyorSystem is COLLECT, a tick changes neither
\* the membership nor the positions of items on line2, unl1 and unl2, and
\* done_log does not grow.
C24_CollectHoldsDownstream ==
    [][(IsTick /\ mode = "COLLECT") =>
          /\ Placed(line2') = Placed(line2)
          /\ Placed(unl1') = Placed(unl1)
          /\ Placed(unl2') = Placed(unl2)
          /\ done_log' = done_log]_vars

\* A drain was interrupted: in COLLECT an item is held part-way on line2
\* (a tick has set its speed to zero) and another on an unload line.
C24_Witness ==
    /\ mode = "COLLECT"
    /\ \E i \in 1..Len(line2) : line2[i].speed = 0 /\ line2[i].pos > 0
    /\ Len(unl1) + Len(unl2) >= 1

\* The position of item id on the belts bs.
BeltPosOf(bs, id) ==
    LET all == Concat([b \in Belts |-> bs[b]])
    IN  all[CHOOSE i \in 1..Len(all) : all[i].id = id].pos

\* C25: while the mode of ConveyorSystem is HANG, no tick changes the
\* position of any item that is on a belt.
C25_HangFreezesBelts ==
    [][(IsTick /\ mode = "HANG") =>
          \A id \in Ids(OnBelts) :
              BeltPosOf(belts', id) = BeltPosOf(belts, id)]_vars

\* The step is a call of _enter_hang (directly or by set_mode('HANG')).
EntersHang == \E ch \in [CarryIds -> BeltSlots] : Becomes(_enter_hang(Self, ch))

\* The places (belt, index) at which item id is found on the belts bs.
BeltPlaces(bs, id) ==
    {<<b, i>> \in Belts \X (1..MaxItems) :
        i <= Len(bs[b]) /\ bs[b][i].id = id}

DownstreamEmpty == line2 = <<>> /\ unl1 = <<>> /\ unl2 = <<>>

\* C26: immediately after _enter_hang (also via set_mode('HANG')), line2,
\* unl1 and unl2 are empty, every item that was on them is on exactly one
\* belt at a position in [0, BELT_LEN_M] with speed 0, and these three lines
\* stay empty for as long as the mode remains HANG.
C26_HangRelocation ==
    [][/\ EntersHang =>
             /\ DownstreamEmpty'
             /\ \A id \in CarryIds :
                   /\ Cardinality(BeltPlaces(belts', id)) = 1
                   /\ \A pl \in BeltPlaces(belts', id) :
                         /\ belts'[pl[1]][pl[2]].pos \in 0..BELT_LEN_M
                         /\ belts'[pl[1]][pl[2]].speed = 0
                   /\ id \notin Ids(load_loop') \cup Ids(line1')
       /\ mode' = "HANG" => DownstreamEmpty']_vars

\* The only item created was handed to a belt or to an unload line before
\* (rr counts the hand-offs) and is now on a belt as a hanged item: it was
\* carried there by _enter_hang.
C26_Witness ==
    /\ mode = "HANG"
    /\ next_id = 2
    /\ rr >= 1
    /\ Len(OnBelts) = 1
    /\ OnBelts[1].id \in hanged_ids
    /\ OnBelts[1].speed = 0
    /\ DownstreamEmpty

\* The step is a call of toggle_mode.
Toggles ==
    Becomes(IF variant = "core" THEN core_toggle_mode(Self)
            ELSE toggle_mode(Self))

\* C27: toggle_mode called in DRAIN changes only the mode (to COLLECT) and
\* the gap-enforcement flag; every item keeps its location and its position,
\* so items already on line2/unl1/unl2 stay there.
C27_DrainToCollectKeepsItems ==
    [][(mode = "DRAIN" /\ Toggles) =>
          /\ mode' = "COLLECT"
          /\ ignore_gaps' = FALSE
          /\ UNCHANGED <<t, next_id, rr, load_loop, line1, belts, line2,
                         unl1, unl2, done_log, hanged_ids,
                         drain_speed_belts, drain_speed_line2>>]_vars

\* The mode went from DRAIN to COLLECT with items in flight on line2 and on
\* an unload line: they still have their drain speeds (no tick has run in
\* COLLECT since).
C27_Witness ==
    /\ mode = "COLLECT"
    /\ ~ignore_gaps
    /\ \E i \in 1..Len(line2) : line2[i].speed > 0 /\ line2[i].pos > 0
    /\ \E i \in 1..Len(unl1) : unl1[i].speed > 0

\* ------------------------------------------------------- hand-off claims
\* The index of belt b in the serpentine order.
SerpIndex(b) == CHOOSE i \in 1..Len(SERP_ORDER) : SERP_ORDER[i] = b

\* C28: outside HANG, successive hand-offs from the intake loop to the belt
\* grid use successive entries of the serpentine order cyclically, whatever
\* ticks and mode changes (including a drain) happen in between; in
\* particular the first items of a fresh system land on distinct belts in
\* serpentine order.
C28_RoundRobinBelts ==
    \A k \in 1..(Len(obs.handed) - 1) :
        SerpIndex(obs.handed[k + 1])
            = (SerpIndex(obs.handed[k]) % NBelts) + 1

\* An item at prev that travels d passes position sw from before: sw is one
\* of the positions prev + 1 .. prev + d, taken around the loop.
Passes(sw, prev, d) ==
    \E k \in 1..d : (prev + k) % LOAD_LOOP_LEN_M = sw % LOAD_LOOP_LEN_M

\* The same with the starting position included: sw lies on the stretch
\* prev .. prev + d.
StartsOnOrPasses(sw, prev, d) ==
    \E k \in 0..d : (prev + k) % LOAD_LOOP_LEN_M = sw % LOAD_LOOP_LEN_M

\* The intake-loop step of a tick from the present state, after a spawn at
\* the stations S: every item of the loop is handed to a belt exactly if
\* Due holds of the switch position, its position and its travel, and
\* stays on the loop otherwise.
HandsOff(S, Due(_, _, _)) ==
    LET s1 == _spawn([Self EXCEPT !.t = @ + 1], S)
        sp == _speed_for(s1, "LOAD")
        d  == Travel(sp)
        arr == Ids(load_loop_arrived_at(obs.sw, s1))
    IN  (sp > 0 /\ 2 * d < LOAD_LOOP_LEN_M) =>
            \A rnd \in (IF mode = "HANG" THEN [arr -> BeltSlots]
                        ELSE {NoDraw}) :
                LET r == _step_load_loop_at(obs.sw, s1, rnd)
                    on_belts == Ids(Concat([b \in Belts |-> r.belts[b]]))
                              \ Ids(Concat([b \in Belts |-> s1.belts[b]]))
                IN  \A i \in 1..Len(s1.load_loop) :
                        LET m == s1.load_loop[i]
                        IN  IF Due(obs.sw, m.pos, d)
                            THEN /\ m.id \in on_belts
                                 /\ m.id \notin Ids(r.load_loop)
                            ELSE /\ m.id \notin on_belts
                                 /\ m.id \in Ids(r.load_loop)

\* No operation puts an item that has left the intake loop back on it.
NoReturnToLoop ==
    Ids(load_loop') \subseteq Ids(load_loop) \cup (next_id..(next_id' - 1))

GridRow(b, cols) == (b - 1) \div cols
GridCol(b, cols) == (b - 1) % cols

Dist(a, b) == IF a >= b THEN a - b ELSE b - a

\* Belts a and b are neighbours in the grid: adjacent columns of one row, or
\* the same column of adjacent rows.
GridNeighbours(a, b, cols) ==
    \/ /\ GridRow(a, cols) = GridRow(b, cols)
       /\ Dist(GridCol(a, cols), GridCol(b, cols)) = 1
    \/ /\ GridCol(a, cols) = GridCol(b, cols)
       /\ Dist(GridRow(a, cols), GridRow(b, cols)) = 1

\* C30: for all rows, cols >= 1, serpentine_order(rows, cols) contains every
\* belt index 1..rows*cols exactly once, lists the even rows left-to-right
\* and the odd rows right-to-left, and any two consecutive entries are grid
\* neighbours; for 7x6 it equals the hard-coded SERPENTINE_ORDER tables.
C30_SerpentineOrder ==
    obs.called =>
        LET o == obs.order
            R == obs.rows
            C == obs.cols
        IN  /\ Len(o) = R * C
            /\ \A b \in 1..(R * C) :
                   Cardinality({i \in 1..Len(o) : o[i] = b}) = 1
            /\ \A r \in 0..(R - 1) : \A c \in 1..C :
                   /\ GridRow(o[r * C + c], C) = r
                   /\ c < C =>
                        GridCol(o[r * C + c + 1], C)
                            = GridCol(o[r * C + c], C)
                                + (IF r % 2 = 0 THEN 1 ELSE -1)
            /\ \A i \in 1..(Len(o) - 1) : GridNeighbours(o[i], o[i + 1], C)
            /\ (R = 7 /\ C = 6) =>
                   /\ o = SERPENTINE_ORDER
                   /\ o = SERPENTINE_ORDER_test

\* The order of the 7x6 grid has been computed and visited to its last
\* entry, through the reversed rows.
C30_Witness ==
    /\ obs.called
    /\ obs.rows = 7
    /\ obs.cols = 6
    /\ obs.k = Len(obs.order)
    /\ obs.order[obs.k] > obs.order[obs.k - obs.cols]
    /\ obs.order[obs.cols + 1] > obs.order[obs.cols + 2]

\* --------------------------------------------------------------------- C31
InSystemOf(s) ==
    Len(s.load_loop) + Len(s.line1)
    + Len(Concat([b \in Belts |-> s.belts[b]]))
    + Len(s.line2) + Len(s.unl1) + Len(s.unl2)

ConservedIn(s) == Created(s) = InSystemOf(s) + Len(s.done_log)

\* Every state on_unloaded can read during a tick from the present state
\* satisfies P of that state and of the state the tick ends in.
EveryCallbackView(P(_, _)) ==
    t < MaxT =>
        \A S \in SpawnSets(Self) :
            LET s1 == _spawn([Self EXCEPT !.t = @ + 1], S)
                ids == Ids(load_loop_arrived(s1))
            IN  \A rnd \in (IF mode = "HANG" THEN [ids -> BeltSlots]
                            ELSE {NoDraw}) :
                    LET pre == before_unloads(Self, S, rnd)
                        views == on_unloaded_views(pre)
                    IN  \A k \in 1..Len(views) :
                            P(views[k], _step_unloads(pre))

ConsistentView(v, post) == ConservedIn(v) /\ v = post

\* C31: at every point where code outside the core can observe the state,
\* between the operations and inside an on_unloaded callback invoked during
\* _step_unloads, the observed state satisfies item conservation (created =
\* in system + completed) and is the state after the tick, not a partially
\* updated one.
C31_ConsistentObservation ==
    /\ ConservedIn(Self)
    /\ EveryCallbackView(ConsistentView)

\* --------------------------------------------------------------------- C32
Occurrences(seq, x) == Cardinality({i \in 1..Len(seq) : seq[i] = x})

\* C32: if the on_unloaded callback raises for an item, tick still completes
\* normally: the tick ends in the state it ends in with a callback that
\* returns, that item is recorded in done_log exactly once, every other item
\* finishing in the same tick (on either unload line) is also removed and
\* recorded, and no exception reaches the caller of tick.
C32_CallbackFailureContained ==
    t < MaxT =>
        \A S \in SpawnSets(Self) :
            LET s1 == _spawn([Self EXCEPT !.t = @ + 1], S)
                ids == Ids(load_loop_arrived(s1))
            IN  \A rnd \in (IF mode = "HANG" THEN [ids -> BeltSlots]
                            ELSE {NoDraw}) :
                  LET fin == Finishing(before_unloads(Self, S, rnd))
                  IN  \A raises \in (SUBSET fin) \ {{}} :
                        LET r == tick_raising(Self, S, rnd, raises)
                        IN  /\ ~r.exc
                            /\ r.s = tick(Self, S, rnd)
                            /\ \A id \in fin :
                                  /\ Occurrences(r.s.done_log, id) = 1
                                  /\ id \notin Ids(r.s.unl1)
                                  /\ id \notin Ids(r.s.unl2)

\* A tick in which two items finished and the callback raised for one of
\* them has returned.
C32_Witness ==
    /\ obs.raised # {}
    /\ obs.finished >= 2
    /\ Cardinality(obs.raised) < obs.finished
    /\ ~obs.exc
    /\ obs.raised \subseteq Range(done_log)

\* --------------------------------------------------------------------- C33
\* The ids of every item of the system and of done_log, one entry per
\* occurrence.
AllIdsOf(s) ==
    [i \in 1..Len(s.load_loop) |-> s.load_loop[i].id]
    \o [i \in 1..Len(s.line1) |-> s.line1[i].id]
    \o Concat([b \in Belts |-> [i \in 1..Len(s.belts[b]) |->
                                   s.belts[b][i].id]])
    \o [i \in 1..Len(s.line2) |-> s.line2[i].id]
    \o [i \in 1..Len(s.unl1) |-> s.unl1[i].id]
    \o [i \in 1..Len(s.unl2) |-> s.unl2[i].id]
    \o s.done_log

EveryIdOnce(s) ==
    /\ Len(AllIdsOf(s)) = Created(s)
    /\ \A id \in 1..Created(s) : Occurrences(AllIdsOf(s), id) = 1

\* _spawn appends its items to the intake loop with the ids next_id,
\* next_id + 1, ... in the order of creation, and leaves next_id above them;
\* no operation lowers next_id.
NewIdsIncrease ==
    /\ next_id' >= next_id
    /\ \A S \in SpawnSets(Self) :
          LET s1 == _spawn(Self, S)
              n  == Len(load_loop)
          IN  /\ s1.next_id = next_id + Cardinality(S)
              /\ Len(s1.load_loop) = n + Cardinality(S)
              /\ SubSeq(s1.load_loop, 1, n) = load_loop
              /\ \A i \in 1..Cardinality(S) :
                    s1.load_loop[n + i].id = next_id + i - 1

\* C33: ids are assigned in strictly increasing order and, after any
\* sequence of ticks and mode operations, every created id occurs exactly
\* once across load_loop, line1, the belts, line2, unl1, unl2 and done_log.
C33_UniqueIdentity ==
    [][NewIdsIncrease /\ EveryIdOnce(Self')]_vars

\* Both items have been created; one was hanged onto a belt, the other has
\* been through a drain and is completed.
C33_Witness ==
    /\ next_id = 3
    /\ Len(done_log) >= 1
    /\ hanged_ids # {}
    /\ \E b \in Belts : belts[b] # <<>>

\* --------------------------------------------------------------------- C34
\* How many more steps a unit needs before it is ready: none when ready, the
\* rest of its move and the two steps after completion while busy, else the
\* latched completion and the step that sets ready.
StepsToReady(hw) ==
    IF hw.ready THEN 0
    ELSE IF hw.busy THEN Max(1, hw.ton.pt - hw.ton.et) + 2
    ELSE hw.latched_complete + 1

FeederIdleNotReady == feeder.state = "IDLE" /\ ~feeder_hw.ready
SorterIdleNotReady == sorter.state = "IDLE" /\ ~sorter_hw.ready

\* C34: after a FeederFSM or SorterFSM transfer has ended and the FSM is
\* back in IDLE, its equipment unit becomes ready again: while the FSM is
\* IDLE and the unit is not ready, every scan brings the unit nearer to
\* ready, so the FSM is never permanently blocked in IDLE by a unit that is
\* not ready.
C34_EquipmentRecovers ==
    [][/\ FeederIdleNotReady =>
            StepsToReady(feeder_hw') < StepsToReady(feeder_hw)
       /\ SorterIdleNotReady =>
            StepsToReady(sorter_hw') < StepsToReady(sorter_hw)]_vars

\* --------------------------------------------------------------------- C35
SorterStarts == sorter.state = "IDLE" /\ sorter'.state = "TRANSFER"
SorterCompletes ==
    /\ sorter.state = "TRANSFER"
    /\ sorter'.state = "IDLE"
    /\ sorter_hw'.complete

\* The hooks as the scan that follows finds them, and the loaded hooks at
\* the sorter position among them.
HooksAtScan == move_hooks(line1_hooks, scan, LINE1_L)
LoadedAtSorter ==
    LET info == nearest_hook_info(HooksAtScan, LINE1_SORT_POS)
    IN  {k \in 1..Len(HooksAtScan) :
            /\ info.near
            /\ HooksAtScan[k].id = info.hid
            /\ HooksAtScan[k].load_id # None}

NoLaneGains ==
    \A n \in 1..Len(lanes) :
        Range(lanes'[n].slots) \subseteq Range(lanes[n].slots)

HandedOver(k) ==
    LET j == HooksAtScan[k].load_id
    IN  /\ line1_hooks' = [HooksAtScan EXCEPT ![k].load_id = None]
        /\ \A n \in 1..Len(lanes) :
              IF lanes[n].id = sorter.target_lane
              THEN /\ Occurrences(lanes'[n].slots, j) = 1
                   /\ lanes'[n].release_at[j] = tnow' + sorter.hold_seconds
                   /\ Range(lanes'[n].slots) \ {j}
                        \subseteq Range(lanes[n].slots)
              ELSE Range(lanes'[n].slots) \subseteq Range(lanes[n].slots)

OnHookAndInLane ==
    \E k \in 1..Len(line1_hooks) : \E n \in 1..Len(lanes) :
        /\ line1_hooks[k].load_id # None
        /\ line1_hooks[k].load_id \in Range(lanes[n].slots)

\* C35: when a Sorter transfer completes with a loaded hook at the sorter
\* position, the hook's job is removed from the hook and put, in the same
\* scan, into exactly the lane chosen at the start of that transfer (a lane
\* that had spare capacity when chosen), with release time now + hold; when
\* no loaded hook is present at completion, no hook and no lane changes; a
\* job is never on a hook and in a lane at once.
C35_SorterHandOff ==
    [][/\ SorterStarts =>
            \E n \in 1..Len(lanes) :
                /\ lanes[n].id = sorter'.target_lane
                /\ can_accept(lanes[n])
       /\ SorterCompletes =>
            IF LoadedAtSorter # {}
            THEN \A k \in LoadedAtSorter : HandedOver(k)
            ELSE line1_hooks' = HooksAtScan /\ NoLaneGains
       /\ ~OnHookAndInLane']_vars

\* A transfer has just completed and handed a job to a lane, while another
\* job is on a hook.
C35_Witness ==
    /\ sorter.state = "IDLE"
    /\ sorter_hw.complete
    /\ \E n \in 1..Len(lanes) :
          /\ lanes[n].slots # <<>>
          /\ \E j \in DOMAIN lanes[n].release_at :
                lanes[n].release_at[j] = tnow + sorter.hold_seconds
    /\ \E k \in 1..Len(line1_hooks) : line1_hooks[k].load_id # None

\* --------------------------------------------------------------------- C36
\* Where item id is in state s: the segments that hold it, with its position.
WhereIs(s, id) ==
    {<<"LOAD", s.load_loop[i].pos>> :
        i \in {k \in 1..Len(s.load_loop) : s.load_loop[k].id = id}}
    \cup {<<"L1", s.line1[i].pos>> :
        i \in {k \in 1..Len(s.line1) : s.line1[k].id = id}}
    \cup UNION {{<<b, s.belts[b][i].pos>> :
        i \in {k \in 1..Len(s.belts[b]) : s.belts[b][k].id = id}} :
            b \in Belts}
    \cup {<<"L2", s.line2[i].pos>> :
        i \in {k \in 1..Len(s.line2) : s.line2[k].id = id}}
    \cup {<<"U1", s.unl1[i].pos>> :
        i \in {k \in 1..Len(s.unl1) : s.unl1[k].id = id}}
    \cup {<<"U2", s.unl2[i].pos>> :
        i \in {k \in 1..Len(s.unl2) : s.unl2[k].id = id}}

\* C36: every item relocated by pick_and_hang (onto line1, onto a belt, or
\* left on the intake loop with speed 0) keeps its position on the ticks
\* that follow, until the next mode transition; checked on the tick that
\* follows every pick_and_hang the system can make.
C36_PickAndHangFreezes ==
    (variant = "system" /\ load_loop # <<>> /\ t < MaxT) =>
        \A ch \in [Ids(load_loop) -> HangChoices] :
            LET s1 == pick_and_hang(Self, ch)
            IN  \A S \in SpawnSets(s1) :
                  LET sp == _spawn([s1 EXCEPT !.t = @ + 1], S)
                      ids == Ids(load_loop_arrived(sp))
                  IN  \A rnd \in (IF mode = "HANG" THEN [ids -> BeltSlots]
                                  ELSE {NoDraw}) :
                        \A id \in Ids(load_loop) :
                            WhereIs(tick(s1, S, rnd), id) = WhereIs(s1, id)

\* --------------------------------------------------------------------- C37
\* C37: in the scan loop of main, the scheduler's waiting set never contains
\* two jobs bound to the same hook: a station never loads a new job onto a
\* hook whose earlier job is still waiting for depot service.
C37_OneWaitingJobPerHook ==
    \A a, b \in 1..Len(jobs) :
        a # b => jobs[a].hook_id # jobs[b].hook_id

\* --------------------------------------------------------------------- C38
\* The FSM and unit of station si after a scan with reset true, from the
\* present state.
ResetScan(si, rq) ==
    StationFSM_scan(st_fsm[si], st_hw[si], StInputs(si, rq, TRUE), tnow)

\* FSM f, scanned at time n1 with a request, a hook present and a ready unit
\* that needs StationMoveTime, enters LOADING, and a scan less than load_time
\* later ends that phase although the unit has not completed: by timeout.
EndsByEarlyTimeout(f, n1) ==
    LET e   == StationFSM_scan(f, SwapperHW(StationMoveTime),
                               StationInputs(TRUE, 1, TRUE, FALSE), n1)
        hw1 == SwapperHW_step(e.hw, e.fsm.out.cmd, n1)
    IN  /\ e.fsm.state = "LOADING"
        /\ \E n2 \in n1..(n1 + f.ton.pt - 1) : \E pr \in BOOLEAN :
              LET x == StationFSM_scan(e.fsm, hw1,
                                       StationInputs(pr, 1, FALSE, FALSE), n2)
              IN  x.fsm.state = "DONE" /\ ~x.hw.complete

\* C38: after a StationFSM scan with reset true (in any state, including
\* LOADING) the FSM is IDLE with cmd false, and the next LOADING phase it
\* enters cannot end by timeout earlier than load_time after that phase
\* began.
C38_FreshGuardAfterReset ==
    \A si \in Exercised : \A rq \in BOOLEAN :
        LET r == ResetScan(si, rq)
        IN  /\ r.fsm.state = "IDLE"
            /\ ~r.fsm.out.cmd
            /\ \A n1 \in tnow..(tnow + StationLoadTime) :
                  ~EndsByEarlyTimeout(r.fsm, n1)

\* --------------------------------------------------------------------- C39
\* C39: consecutive items leaving line2 are sent to alternating unload
\* lines, over the whole run including across separate DRAIN periods with
\* COLLECT periods in between.
C39_UnloadAlternation ==
    \A k \in 1..(Len(obs.sent) - 1) : obs.sent[k + 1] # obs.sent[k]

\* --------------------------------------------------------------------- C40
BeltsWithin(bs) ==
    \A b \in Belts : \A i \in 1..Len(bs[b]) :
        bs[b][i].pos >= 0 /\ bs[b][i].pos <= BELT_LEN_M

\* After a step every belt item is within the belt; a tick in COLLECT or HANG
\* takes no item off a belt, and a tick in DRAIN leaves no item at the end of
\* a belt.
BeltBoundsStep ==
    /\ BeltsWithin(belts')
    /\ (IsTick /\ mode \in {"COLLECT", "HANG"}) =>
          Ids(OnBelts) \subseteq Ids(Concat([b \in Belts |-> belts'[b]]))
    /\ (IsTick /\ mode = "DRAIN") =>
          \A b \in Belts : \A i \in 1..Len(belts'[b]) :
              belts'[b][i].pos < BELT_LEN_M

\* C40: after every tick and every mode operation every item on a belt has
\* 0 <= pos <= BELT_LEN_M; in COLLECT and HANG no item leaves a belt through
\* tick, and in DRAIN every item left on a belt after a tick has
\* pos < BELT_LEN_M.
C40_BeltPositionBounds == [][BeltBoundsStep]_vars

====
